---- MODULE Spec2Model ----
(***************************************************************************)
(* JobOps: jobs with ordered tasks, role based authorization and an audit  *)
(* log.  The database rows are the state; every HTTP endpoint of the       *)
(* viewsets is one action.                                                  *)
(***************************************************************************)
EXTENDS Integers, Sequences, FiniteSets, TLC

(* ------------------------------ bounds --------------------------------- *)
MaxJobs == 2
MaxTasks == 2
MaxNow == 2
CoreJobs == 1
CoreTasks == 1
CoreLogs == 2
TasksLogs == 3
AuditJobs == 1
AuditTasks == 1
AuditLogs == 2
TaskAuditLogs == 2
TimeJobs == 1
TimeTasks == 1
TimeLogs == 2
SweepJobs == 2
SweepLogs == 3
ListJobs == 2
ListLogs == 3
TaskListJobs == 1
TaskListTasks == 2
RaceJobs == 1
RaceTasks == 2
RaceLogs == 4
TaskRaceJobs == 1
TaskRaceTasks == 2
OverdueJobs == 1
OverdueTasks == 1
OverdueLogs == 2
SweepRaceJobs == 1
FailJobs == 1
FailTasks == 1
FailLogs == 3
MoveJobs == 2
MoveTasks == 1
MoveLogs == 3
EquipJobs == 1
EquipTasks == 1
RetentionJobs == 1
RetentionLogs == 2
RetentionMaxNow == 92
MaxEquipment == 2

(* ------------------------------ values --------------------------------- *)
NoRow == [row |-> "none"]
NoUser == "none"
NoJob == 0
NoTime == 0
Anon == "anon"

Users == {"a1", "t1", "t2", "s1"}
Roles == {"admin", "technician", "sales_agent"}
InitialUsers == [u \in Users |->
    [role |-> CASE u = "a1" -> "admin"
                [] u = "s1" -> "sales_agent"
                [] OTHER -> "technician",
     is_active |-> TRUE,
     is_superuser |-> u = "a1"]]

JobIds == 1..MaxJobs
TaskIds == 1..MaxTasks
EquipmentIds == 1..MaxEquipment
Workers == {1, 2}
Idle == [pc |-> "idle"]

JOB_STATUS_CHOICES == {"pending", "in_progress", "completed", "cancelled"}
TASK_STATUS_CHOICES == {"pending", "in_progress", "completed"}
SAFE_METHODS == {"GET", "HEAD", "OPTIONS"}

Opt(S) == {<<>>} \cup {<<v>> : v \in S}
Get(o, default) == IF o = <<>> THEN default ELSE o[1]

VARIABLES users, jobs, nextJob, tasks, nextTask, logs, now, resp, perm, equipment, inflight

vars == <<users, jobs, nextJob, tasks, nextTask, logs, now, resp, perm, equipment, inflight>>

(* --------------------------- row look-ups ------------------------------ *)
UserExists(u) == u \in Users /\ users[u] # NoRow
JobExists(j) == j \in JobIds /\ jobs[j] # NoRow
TaskExists(t) == t \in TaskIds /\ tasks[t] # NoRow
RoleOf(u) == users[u].role
is_authenticated(u) == u # Anon /\ UserExists(u) /\ users[u].is_active
TasksOf(j) == {t \in TaskIds : tasks[t] # NoRow /\ tasks[t].job = j}
LogsOf(j) == SelectSeq(logs, LAMBDA e : e.job = j)

(* ------------------------------ models --------------------------------- *)
can_complete_AlwaysTrue(pk) == TRUE

can_complete(pk) ==
    IF pk = NoJob THEN TRUE
    ELSE ~ \E t \in TasksOf(pk) : tasks[t].status \in {"pending", "in_progress"}

Job_clean_NoCheck(job, pk) == TRUE

Job_clean(job, pk) == ~ (job.status = "completed" /\ ~ can_complete(pk))

Job_clean_fields(job) ==
    /\ job.created_by # NoUser
    /\ UserExists(job.created_by)
    /\ job.assigned_to # NoUser =>
          (UserExists(job.assigned_to) /\ RoleOf(job.assigned_to) = "technician")
    /\ job.status \in JOB_STATUS_CHOICES

Job_full_clean(job, pk) == Job_clean_fields(job) /\ Job_clean(job, pk)

JobTask_save_KeepsCompletedAt(task) ==
    IF task.status = "completed" /\ task.completed_at = NoTime
    THEN [task EXCEPT !.completed_at = now]
    ELSE task

JobTask_save_AlwaysStamps(task) ==
    IF task.status = "completed"
    THEN [task EXCEPT !.completed_at = now]
    ELSE [task EXCEPT !.completed_at = NoTime]

JobTask_save(task) ==
    IF task.status = "completed" /\ task.completed_at = NoTime
    THEN [task EXCEPT !.completed_at = now]
    ELSE IF task.status # "completed" /\ task.completed_at # NoTime
    THEN [task EXCEPT !.completed_at = NoTime]
    ELSE task

LogEntry(j, u, action, changes) ==
    [job |-> j, user |-> u, action |-> action, changes |-> changes, timestamp |-> now]

(* ---------------------------- permissions ------------------------------ *)
CanCreateJob_has_permission_AnyRole(method, action, u) == is_authenticated(u)

CanCreateJob_has_permission(method, action, u) ==
    IF method \in SAFE_METHODS THEN is_authenticated(u)
    ELSE IF method = "POST" /\ action = "create"
    THEN is_authenticated(u) /\ RoleOf(u) \in {"admin", "sales_agent"}
    ELSE is_authenticated(u)

CanUpdateJobProgress_has_permission(u) == is_authenticated(u)

IsAuthenticated_has_permission(u) == is_authenticated(u)

CanManageEquipment_has_permission(method, u) ==
    IF method \in SAFE_METHODS THEN is_authenticated(u)
    ELSE is_authenticated(u) /\ RoleOf(u) = "admin"

CanManageUsers_has_permission(method, u) ==
    IF method \in SAFE_METHODS THEN is_authenticated(u)
    ELSE is_authenticated(u) /\ RoleOf(u) = "admin"

has_object_permission_WrongField(method, u, obj) ==
    IF method \in SAFE_METHODS THEN TRUE
    ELSE IF RoleOf(u) = "admin" THEN TRUE
    ELSE IF "assigned_to" \in DOMAIN obj
    THEN obj.assigned_to = u
    ELSE IF "job" \in DOMAIN obj
    THEN jobs[obj.job].assigned_to = u
    ELSE FALSE

has_object_permission_NoOwnerCheck(method, u, obj) ==
    IF method \in SAFE_METHODS THEN TRUE
    ELSE RoleOf(u) \in Roles

has_object_permission(method, u, obj) ==
    IF method \in SAFE_METHODS THEN TRUE
    ELSE IF RoleOf(u) = "admin" THEN TRUE
    ELSE IF "assigned_to" \in DOMAIN obj /\ RoleOf(u) = "technician"
    THEN obj.assigned_to = u
    ELSE IF "assigned_to" \in DOMAIN obj /\ RoleOf(u) = "sales_agent"
    THEN obj.created_by = u
    ELSE IF "job" \in DOMAIN obj /\ RoleOf(u) = "technician"
    THEN jobs[obj.job].assigned_to = u
    ELSE IF "job" \in DOMAIN obj /\ RoleOf(u) = "sales_agent"
    THEN jobs[obj.job].created_by = u
    ELSE FALSE

JobViewSet_get_queryset_NoSalesFilter(u) ==
    {j \in JobIds : /\ jobs[j] # NoRow
                    /\ RoleOf(u) = "technician" => jobs[j].assigned_to = u}

JobViewSet_get_queryset(u) ==
    {j \in JobIds : /\ jobs[j] # NoRow
                    /\ RoleOf(u) = "technician" => jobs[j].assigned_to = u
                    /\ RoleOf(u) = "sales_agent" => jobs[j].created_by = u}

JobTaskViewSet_get_queryset(u) ==
    {t \in TaskIds : /\ tasks[t] # NoRow
                     /\ RoleOf(u) = "technician" => jobs[tasks[t].job].assigned_to = u}

(* ----------------------------- serializers ----------------------------- *)
TechnicianQueryset == {u \in Users : users[u] # NoRow /\ users[u].role = "technician"
                                      /\ users[u].is_active}

JobCreateSerializer_is_valid(data) ==
    /\ data.title # <<>>
    /\ data.scheduled_date # <<>>
    /\ data.assigned_to_id # <<>> /\ data.assigned_to_id[1] # NoUser
          => data.assigned_to_id[1] \in TechnicianQueryset

JobCreateSerializer_create_TrustsRequest(data, creator) ==
    [title |-> data.title[1],
     created_by |-> Get(data.created_by, creator),
     assigned_to |-> Get(data.assigned_to_id, NoUser),
     status |-> Get(data.status, "pending"),
     scheduled_date |-> data.scheduled_date[1],
     overdue |-> Get(data.overdue, FALSE)]

JobCreateSerializer_create(data, creator) ==
    [title |-> data.title[1],
     created_by |-> creator,
     assigned_to |-> Get(data.assigned_to_id, NoUser),
     status |-> "pending",
     scheduled_date |-> data.scheduled_date[1],
     overdue |-> FALSE]

JobUpdateSerializer_validate(job, pk, data) ==
    ~ (Get(data.status, job.status) = "completed" /\ ~ can_complete(pk))

JobUpdateSerializer_is_valid(job, pk, data) ==
    /\ data.assigned_to_id # <<>> /\ data.assigned_to_id[1] # NoUser
          => data.assigned_to_id[1] \in TechnicianQueryset
    /\ JobUpdateSerializer_validate(job, pk, data)

JobUpdateSerializer_update_WritesOverdue(job, data) ==
    [job EXCEPT !.title = Get(data.title, @),
                !.assigned_to = Get(data.assigned_to_id, @),
                !.status = Get(data.status, @),
                !.scheduled_date = Get(data.scheduled_date, @),
                !.overdue = IF "overdue" \in DOMAIN data THEN Get(data.overdue, @) ELSE @]

JobUpdateSerializer_update(job, data) ==
    [job EXCEPT !.title = Get(data.title, @),
                !.assigned_to = Get(data.assigned_to_id, @),
                !.status = Get(data.status, @),
                !.scheduled_date = Get(data.scheduled_date, @)]

(* ------------------------------ responses ------------------------------ *)
Response(op, code) == [op |-> op, code |-> code]

Refuse(op, code) ==
    /\ resp' = Response(op, code)
    /\ UNCHANGED <<users, jobs, nextJob, tasks, nextTask, logs, now, perm, equipment, inflight>>

NoPerm == [view |-> "none", method |-> "none", action |-> "none", user |-> NoUser,
           target |-> 0, granted |-> FALSE]

Init ==
    /\ users = InitialUsers
    /\ jobs = [j \in JobIds |-> NoRow]
    /\ nextJob = 1
    /\ tasks = [t \in TaskIds |-> NoRow]
    /\ nextTask = 1
    /\ logs = <<>>
    /\ now = 1
    /\ resp = Response("none", 0)
    /\ perm = NoPerm
    /\ equipment = [e \in EquipmentIds |-> NoRow]
    /\ inflight = [w \in Workers |-> Idle]

(* ------------------------------ JobViewSet ----------------------------- *)
JobViewSet_check_permissions(method, action, u) ==
    CanCreateJob_has_permission(method, action, u) /\ CanUpdateJobProgress_has_permission(u)

JobViewSet_create(u, data) ==
    IF ~ JobViewSet_check_permissions("POST", "create", u)
    THEN Refuse("create_job", 403)
    ELSE IF ~ JobCreateSerializer_is_valid(data)
    THEN Refuse("create_job", 400)
    ELSE LET job == JobCreateSerializer_create(data, u) IN
         IF ~ Job_full_clean(job, NoJob)
         THEN Refuse("create_job", 500)
         ELSE /\ nextJob \in JobIds
              /\ jobs' = [jobs EXCEPT ![nextJob] = job]
              /\ nextJob' = nextJob + 1
              /\ logs' = Append(logs, LogEntry(nextJob, u, "created",
                               [status |-> "Job created", title |-> job.title]))
              /\ resp' = Response("create_job", 201)
              /\ UNCHANGED <<users, tasks, nextTask, now, perm, equipment, inflight>>

perform_update_changes_StatusOnly(old, new) ==
    [f \in {f \in {"status"} : old[f] # new[f]} |-> [old |-> old[f], new |-> new[f]]]

perform_update_changes(old, new) ==
    [f \in {f \in {"status", "assigned_to"} : old[f] # new[f]} |->
        [old |-> old[f], new |-> new[f]]]

JobViewSet_update(u, j, data) ==
    IF ~ JobViewSet_check_permissions("PATCH", "partial_update", u)
    THEN Refuse("update_job", 403)
    ELSE IF j \notin JobViewSet_get_queryset(u)
    THEN Refuse("update_job", 404)
    ELSE IF ~ has_object_permission("PATCH", u, jobs[j])
    THEN Refuse("update_job", 403)
    ELSE IF ~ JobUpdateSerializer_is_valid(jobs[j], j, data)
    THEN Refuse("update_job", 400)
    ELSE LET job == JobUpdateSerializer_update(jobs[j], data)
             changes == perform_update_changes(jobs[j], job)
         IN IF ~ Job_full_clean(job, j)
            THEN Refuse("update_job", 500)
            ELSE /\ jobs' = [jobs EXCEPT ![j] = job]
                 /\ logs' = IF DOMAIN changes # {}
                            THEN Append(logs, LogEntry(j, u, "updated", changes))
                            ELSE logs
                 /\ resp' = Response("update_job", 200)
                 /\ UNCHANGED <<users, nextJob, tasks, nextTask, now, perm, equipment, inflight>>

JobViewSet_complete(u, j) ==
    IF ~ JobViewSet_check_permissions("POST", "complete", u)
    THEN Refuse("complete_job", 403)
    ELSE IF j \notin JobViewSet_get_queryset(u)
    THEN Refuse("complete_job", 404)
    ELSE IF ~ has_object_permission("POST", u, jobs[j])
    THEN Refuse("complete_job", 403)
    ELSE IF ~ can_complete(j)
    THEN Refuse("complete_job", 400)
    ELSE LET job == [jobs[j] EXCEPT !.status = "completed"] IN
         IF ~ Job_full_clean(job, j)
         THEN Refuse("complete_job", 500)
         ELSE /\ jobs' = [jobs EXCEPT ![j] = job]
              /\ logs' = Append(logs, LogEntry(j, u, "completed",
                               [status |-> "Job marked as completed"]))
              /\ resp' = Response("complete_job", 200)
              /\ UNCHANGED <<users, nextJob, tasks, nextTask, now, perm, equipment, inflight>>

JobViewSet_destroy(u, j) ==
    IF ~ JobViewSet_check_permissions("DELETE", "destroy", u)
    THEN Refuse("delete_job", 403)
    ELSE IF j \notin JobViewSet_get_queryset(u)
    THEN Refuse("delete_job", 404)
    ELSE IF ~ has_object_permission("DELETE", u, jobs[j])
    THEN Refuse("delete_job", 403)
    ELSE /\ jobs' = [jobs EXCEPT ![j] = NoRow]
         /\ tasks' = [t \in TaskIds |-> IF t \in TasksOf(j) THEN NoRow ELSE tasks[t]]
         /\ logs' = SelectSeq(logs, LAMBDA e : e.job # j)
         /\ resp' = Response("delete_job", 204)
         /\ UNCHANGED <<users, nextJob, nextTask, now, perm, equipment, inflight>>

(* ---------------------------- JobTaskViewSet --------------------------- *)
JobTaskViewSet_check_permissions(u) ==
    IsAuthenticated_has_permission(u) /\ CanUpdateJobProgress_has_permission(u)

(* a key the request does not carry *)
Supplied(data, key) == IF key \in DOMAIN data THEN data[key] ELSE <<>>

ActiveEquipment_All == {e \in EquipmentIds : equipment[e] # NoRow}

(* Equipment.objects.filter(is_active=True) *)
ActiveEquipment == {e \in EquipmentIds : equipment[e] # NoRow /\ equipment[e].is_active}

required_equipment_ids_is_valid(data) ==
    Supplied(data, "required_equipment_ids") # <<>> =>
        Supplied(data, "required_equipment_ids")[1] \subseteq ActiveEquipment

JobTaskCreateSerializer_is_valid(data) ==
    /\ data.job # <<>> /\ JobExists(data.job[1])
    /\ data.title # <<>>
    /\ Get(data.order, 0) >= 0
    /\ required_equipment_ids_is_valid(data)

(* created_at is auto_now_add: it grows with the insertion sequence, which  *)
(* the primary key counts.                                                 *)
JobTaskCreateSerializer_create(data) ==
    [job |-> data.job[1],
     title |-> data.title[1],
     status |-> "pending",
     order |-> Get(data.order, 0),
     completed_at |-> NoTime,
     created_at |-> nextTask,
     required_equipment |-> Get(Supplied(data, "required_equipment_ids"), {})]

JobTaskViewSet_create(u, data) ==
    IF ~ JobTaskViewSet_check_permissions(u)
    THEN Refuse("create_task", 403)
    ELSE IF ~ JobTaskCreateSerializer_is_valid(data)
    THEN Refuse("create_task", 400)
    ELSE /\ nextTask \in TaskIds
         /\ tasks' = [tasks EXCEPT ![nextTask] =
                          JobTask_save(JobTaskCreateSerializer_create(data))]
         /\ nextTask' = nextTask + 1
         /\ resp' = Response("create_task", 201)
         /\ UNCHANGED <<users, jobs, nextJob, logs, now, perm, equipment, inflight>>

validate_order_AcceptsAll(value) == TRUE

validate_order(value) == value >= 0

JobTaskSerializer_is_valid(task, data) ==
    /\ data.job # <<>> => JobExists(data.job[1])
    /\ data.order # <<>> => validate_order(data.order[1])
    /\ required_equipment_ids_is_valid(data)

JobTaskSerializer_update(task, data) ==
    [task EXCEPT !.job = Get(data.job, @),
                 !.title = Get(data.title, @),
                 !.status = Get(data.status, @),
                 !.order = Get(data.order, @),
                 !.required_equipment = Get(Supplied(data, "required_equipment_ids"), @)]

JobTaskViewSet_update_ReadsStatusAfterSave(u, t, data) ==
    IF ~ JobTaskViewSet_check_permissions(u)
    THEN Refuse("update_task", 403)
    ELSE IF t \notin JobTaskViewSet_get_queryset(u)
    THEN Refuse("update_task", 404)
    ELSE IF ~ has_object_permission("PATCH", u, tasks[t])
    THEN Refuse("update_task", 403)
    ELSE IF ~ JobTaskSerializer_is_valid(tasks[t], data)
    THEN Refuse("update_task", 400)
    ELSE LET task == JobTask_save(JobTaskSerializer_update(tasks[t], data))
         IN /\ tasks' = [tasks EXCEPT ![t] = task]
            /\ logs' = logs
            /\ resp' = Response("update_task", 200)
            /\ UNCHANGED <<users, jobs, nextJob, nextTask, now, perm, equipment, inflight>>

JobTaskViewSet_update(u, t, data) ==
    IF ~ JobTaskViewSet_check_permissions(u)
    THEN Refuse("update_task", 403)
    ELSE IF t \notin JobTaskViewSet_get_queryset(u)
    THEN Refuse("update_task", 404)
    ELSE IF ~ has_object_permission("PATCH", u, tasks[t])
    THEN Refuse("update_task", 403)
    ELSE IF ~ JobTaskSerializer_is_valid(tasks[t], data)
    THEN Refuse("update_task", 400)
    ELSE LET old_status == tasks[t].status
             task == JobTask_save(JobTaskSerializer_update(tasks[t], data))
         IN /\ tasks' = [tasks EXCEPT ![t] = task]
            /\ logs' = IF old_status # task.status
                       THEN Append(logs, LogEntry(task.job, u, "task_updated",
                                [task_id |-> t, task_title |-> task.title,
                                 old_status |-> old_status, new_status |-> task.status]))
                       ELSE logs
            /\ resp' = Response("update_task", 200)
            /\ UNCHANGED <<users, jobs, nextJob, nextTask, now, perm, equipment, inflight>>

JobTaskViewSet_destroy(u, t) ==
    IF ~ JobTaskViewSet_check_permissions(u)
    THEN Refuse("delete_task", 403)
    ELSE IF t \notin JobTaskViewSet_get_queryset(u)
    THEN Refuse("delete_task", 404)
    ELSE IF ~ has_object_permission("DELETE", u, tasks[t])
    THEN Refuse("delete_task", 403)
    ELSE /\ tasks' = [tasks EXCEPT ![t] = NoRow]
         /\ resp' = Response("delete_task", 204)
         /\ UNCHANGED <<users, jobs, nextJob, nextTask, logs, now, perm, equipment, inflight>>

(* ----------------------------- UserViewSet ---------------------------- *)
UserUpdateSerializer_update(user, data) ==
    [user EXCEPT !.role = Get(data.role, @),
                 !.is_active = Get(data.is_active, @)]

UserViewSet_update(u, target, data) ==
    IF ~ CanManageUsers_has_permission("PATCH", u)
    THEN Refuse("update_user", 403)
    ELSE IF ~ UserExists(target)
    THEN Refuse("update_user", 404)
    ELSE /\ users' = [users EXCEPT ![target] = UserUpdateSerializer_update(@, data)]
         /\ resp' = Response("update_user", 200)
         /\ UNCHANGED <<jobs, nextJob, tasks, nextTask, logs, now, perm, equipment, inflight>>

SET_NULL(ref, target) == IF ref = target THEN NoUser ELSE ref

UserViewSet_destroy(u, target) ==
    IF ~ CanManageUsers_has_permission("DELETE", u)
    THEN Refuse("delete_user", 403)
    ELSE IF ~ UserExists(target)
    THEN Refuse("delete_user", 404)
    ELSE /\ users' = [users EXCEPT ![target] = NoRow]
         /\ jobs' = [j \in JobIds |->
                IF jobs[j] = NoRow THEN NoRow
                ELSE [jobs[j] EXCEPT !.created_by = SET_NULL(@, target),
                                     !.assigned_to = SET_NULL(@, target)]]
         /\ logs' = [i \in 1..Len(logs) |-> [logs[i] EXCEPT !.user = SET_NULL(@, target)]]
         /\ resp' = Response("delete_user", 204)
         /\ UNCHANGED <<nextJob, tasks, nextTask, now, perm, equipment, inflight>>

(* ------------------------- direct model writes ------------------------- *)
Job_save(j, status) ==
    /\ JobExists(j)
    /\ LET job == [jobs[j] EXCEPT !.status = status] IN
       IF ~ Job_full_clean(job, j)
       THEN Refuse("job_save", 500)
       ELSE /\ jobs' = [jobs EXCEPT ![j] = job]
            /\ resp' = Response("job_save", 200)
            /\ UNCHANGED <<users, nextJob, tasks, nextTask, logs, now, perm, equipment, inflight>>

(* --------------------------- EquipmentViewSet -------------------------- *)
(* no Equipment row is deleted here, so the next primary key is the count *)
nextEquipment == Cardinality({e \in EquipmentIds : equipment[e] # NoRow}) + 1

EquipmentViewSet_create(u, data) ==
    IF ~ CanManageEquipment_has_permission("POST", u)
    THEN Refuse("create_equipment", 403)
    ELSE /\ nextEquipment \in EquipmentIds
         /\ equipment' = [equipment EXCEPT ![nextEquipment] =
                              [is_active |-> Get(data.is_active, TRUE)]]
         /\ resp' = Response("create_equipment", 201)
         /\ UNCHANGED <<users, jobs, nextJob, tasks, nextTask, logs, now, perm, inflight>>

EquipmentViewSet_update(u, e, data) ==
    IF ~ CanManageEquipment_has_permission("PATCH", u)
    THEN Refuse("update_equipment", 403)
    ELSE IF equipment[e] = NoRow
    THEN Refuse("update_equipment", 404)
    ELSE /\ equipment' = [equipment EXCEPT ![e].is_active = Get(data.is_active, @)]
         /\ resp' = Response("update_equipment", 200)
         /\ UNCHANGED <<users, jobs, nextJob, tasks, nextTask, logs, now, perm, inflight>>

(* ---------------------------- the admin site -------------------------- *)
(* User.save: a user whose role is admin is staff; so is a superuser *)
is_staff(u) == RoleOf(u) = "admin" \/ users[u].is_superuser

(* the framework's permission backend: an active superuser holds every     *)
(* model permission                                                        *)
has_perm(u) == users[u].is_active /\ users[u].is_superuser

JobChangeLogAdmin_has_add_permission(u) == FALSE

JobChangeLogAdmin_has_change_permission(u) == FALSE

(* not overridden by JobChangeLogAdmin: ModelAdmin's rule applies *)
JobChangeLogAdmin_has_delete_permission(u) == has_perm(u)

Remove(seq, i) == [k \in 1..(Len(seq) - 1) |-> IF k < i THEN seq[k] ELSE seq[k + 1]]

JobChangeLogAdmin_change_view(u, i, action) ==
    IF ~ (is_authenticated(u) /\ is_staff(u))
    THEN Refuse("admin_change_log", 302)
    ELSE IF i \notin 1..Len(logs)
    THEN Refuse("admin_change_log", 404)
    ELSE IF ~ JobChangeLogAdmin_has_change_permission(u)
    THEN Refuse("admin_change_log", 403)
    ELSE /\ logs' = [logs EXCEPT ![i].action = action]
         /\ resp' = Response("admin_change_log", 200)
         /\ UNCHANGED <<users, jobs, nextJob, tasks, nextTask, now, perm, equipment, inflight>>

JobChangeLogAdmin_delete_view(u, i) ==
    IF ~ (is_authenticated(u) /\ is_staff(u))
    THEN Refuse("admin_delete_log", 302)
    ELSE IF i \notin 1..Len(logs)
    THEN Refuse("admin_delete_log", 404)
    ELSE IF ~ JobChangeLogAdmin_has_delete_permission(u)
    THEN Refuse("admin_delete_log", 403)
    ELSE /\ logs' = Remove(logs, i)
         /\ resp' = Response("admin_delete_log", 200)
         /\ UNCHANGED <<users, jobs, nextJob, tasks, nextTask, now, perm, equipment, inflight>>

(* ------------------------------- reads -------------------------------- *)
ResponseWith(op, code, body) == [op |-> op, code |-> code, body |-> body]

Reply(op, code, body) ==
    /\ resp' = ResponseWith(op, code, body)
    /\ UNCHANGED <<users, jobs, nextJob, tasks, nextTask, logs, now, perm, equipment, inflight>>

Orderings(S) ==
    {seq \in [1..Cardinality(S) -> S] : \A a, b \in 1..Cardinality(S) : a # b => seq[a] # seq[b]}

(* JobTask.Meta.ordering: order, then created_at *)
Meta_ordering(a, b) ==
    \/ tasks[a].order < tasks[b].order
    \/ tasks[a].order = tasks[b].order /\ tasks[a].created_at <= tasks[b].created_at

(* JobTaskViewSet.ordering: order alone; rows of equal order come as the    *)
(* database happens to return them.                                        *)
JobTaskViewSet_ordering(a, b) == tasks[a].order <= tasks[b].order

job_tasks_all(j) ==
    CHOOSE seq \in Orderings(TasksOf(j)) :
        \A a, b \in 1..Len(seq) : a < b => Meta_ordering(seq[a], seq[b])

(* Job.Meta.ordering and JobViewSet.ordering: newest first *)
JobViewSet_ordered(S) ==
    CHOOSE seq \in Orderings(S) : \A a, b \in 1..Len(seq) : a < b => seq[a] > seq[b]

JobViewSet_list(u) ==
    IF ~ JobViewSet_check_permissions("GET", "list", u)
    THEN Refuse("list_jobs", 403)
    ELSE Reply("list_jobs", 200, JobViewSet_ordered(JobViewSet_get_queryset(u)))

JobViewSet_retrieve(u, j) ==
    IF ~ JobViewSet_check_permissions("GET", "retrieve", u)
    THEN Refuse("retrieve_job", 403)
    ELSE IF j \notin JobViewSet_get_queryset(u)
    THEN Refuse("retrieve_job", 404)
    ELSE IF ~ has_object_permission("GET", u, jobs[j])
    THEN Refuse("retrieve_job", 403)
    ELSE Reply("retrieve_job", 200, [id |-> j, tasks |-> job_tasks_all(j)])

JobTaskViewSet_list(u, job_id) ==
    IF ~ JobTaskViewSet_check_permissions(u)
    THEN Refuse("list_tasks", 403)
    ELSE LET queryset == {t \in JobTaskViewSet_get_queryset(u) :
                             job_id # <<>> => tasks[t].job = job_id[1]}
         IN \E seq \in Orderings(queryset) :
               /\ \A a, b \in 1..Len(seq) : a < b => JobTaskViewSet_ordering(seq[a], seq[b])
               /\ Reply("list_tasks", 200, seq)

JobTaskViewSet_retrieve(u, t) ==
    IF ~ JobTaskViewSet_check_permissions(u)
    THEN Refuse("retrieve_task", 403)
    ELSE IF t \notin JobTaskViewSet_get_queryset(u)
    THEN Refuse("retrieve_task", 404)
    ELSE IF ~ has_object_permission("GET", u, tasks[t])
    THEN Refuse("retrieve_task", 403)
    ELSE Reply("retrieve_task", 200, [id |-> t])

(* --------------------------- periodic tasks ---------------------------- *)
check_overdue_jobs_IncludesToday ==
    LET today == now
        overdue_jobs == {j \in JobIds : /\ jobs[j] # NoRow
                                        /\ jobs[j].scheduled_date <= today
                                        /\ jobs[j].status \in {"pending", "in_progress"}
                                        /\ jobs[j].overdue = FALSE}
        count == Cardinality(overdue_jobs)
    IN /\ jobs' = [j \in JobIds |-> IF j \in overdue_jobs
                                     THEN [jobs[j] EXCEPT !.overdue = TRUE]
                                     ELSE jobs[j]]
       /\ resp' = ResponseWith("check_overdue_jobs", 0, [count |-> count])
       /\ UNCHANGED <<users, nextJob, tasks, nextTask, logs, now, perm, equipment, inflight>>

check_overdue_jobs_Recounts ==
    LET today == now
        overdue_jobs == {j \in JobIds : /\ jobs[j] # NoRow
                                        /\ jobs[j].scheduled_date < today
                                        /\ jobs[j].status \in {"pending", "in_progress"}}
        count == Cardinality(overdue_jobs)
    IN /\ jobs' = [j \in JobIds |-> IF j \in overdue_jobs
                                     THEN [jobs[j] EXCEPT !.overdue = TRUE]
                                     ELSE jobs[j]]
       /\ resp' = ResponseWith("check_overdue_jobs", 0, [count |-> count])
       /\ UNCHANGED <<users, nextJob, tasks, nextTask, logs, now, perm, equipment, inflight>>

check_overdue_jobs ==
    LET today == now
        overdue_jobs == {j \in JobIds : /\ jobs[j] # NoRow
                                        /\ jobs[j].scheduled_date < today
                                        /\ jobs[j].status \in {"pending", "in_progress"}
                                        /\ jobs[j].overdue = FALSE}
        count == Cardinality(overdue_jobs)
    IN /\ jobs' = [j \in JobIds |-> IF j \in overdue_jobs
                                     THEN [jobs[j] EXCEPT !.overdue = TRUE]
                                     ELSE jobs[j]]
       /\ resp' = ResponseWith("check_overdue_jobs", 0, [count |-> count])
       /\ UNCHANGED <<users, nextJob, tasks, nextTask, logs, now, perm, equipment, inflight>>

(* timedelta(days=90) *)
RETENTION_DAYS == 90

cleanup_old_logs ==
    LET cutoff_date == now - RETENTION_DAYS
        old_logs(e) == e.timestamp < cutoff_date
        count == Len(SelectSeq(logs, old_logs))
    IN /\ logs' = SelectSeq(logs, LAMBDA e : ~ old_logs(e))
       /\ resp' = ResponseWith("cleanup_old_logs", 0, [count |-> count])
       /\ UNCHANGED <<users, jobs, nextJob, tasks, nextTask, now, perm, equipment, inflight>>

(* -------------------------------- time --------------------------------- *)
(* a day passes; the last response belongs to the day before *)
Tick ==
    /\ now < MaxNow
    /\ now' = now + 1
    /\ resp' = Response("none", 0)
    /\ UNCHANGED <<users, jobs, nextJob, tasks, nextTask, logs, perm, equipment, inflight>>

(* --------------------------- request inputs ---------------------------- *)
Actors == {u \in Users : is_authenticated(u)}

Unsupplied == [created_by |-> <<>>, status |-> <<>>, overdue |-> <<>>]
Forged == [created_by |-> <<"t2">>, status |-> <<"completed">>, overdue |-> <<TRUE>>]

JobCreateData ==
    {[title |-> <<"A">>, assigned_to_id |-> a, scheduled_date |-> <<now + 1>>,
      created_by |-> x.created_by, status |-> x.status, overdue |-> x.overdue] :
        a \in Opt({"t1"}), x \in {Unsupplied, Forged}}

JobUpdateData ==
    [title : {<<>>}, assigned_to_id : Opt({NoUser, "t1"}),
     status : Opt({"in_progress", "completed"}), scheduled_date : {<<>>}]

TaskCreateData ==
    [job : Opt(JobIds), title : {<<"T">>}, order : {<<>>},
     status : Opt({"completed"})]

TaskUpdateData ==
    [job : Opt(JobIds), title : {<<>>}, order : {<<>>},
     status : Opt({"in_progress", "completed"})]

UserUpdateData == [role : Opt({"sales_agent"}), is_active : {<<>>}]

LogRoom(cap) == Len(logs) < cap
RequestJobIds == {j \in JobIds : j <= nextJob}
RequestTaskIds == {t \in TaskIds : t <= nextTask}

(* --------------------------- lifecycle core ---------------------------- *)
CreateJob == \E u \in Actors, data \in JobCreateData :
    nextJob <= CoreJobs /\ LogRoom(CoreLogs) /\ JobViewSet_create(u, data)
UpdateJob == \E u \in Actors, j \in RequestJobIds, data \in JobUpdateData :
    LogRoom(CoreLogs) /\ JobViewSet_update(u, j, data)
CompleteJob == \E u \in Actors, j \in RequestJobIds :
    LogRoom(CoreLogs) /\ JobViewSet_complete(u, j)
DeleteJob == \E u \in Actors, j \in RequestJobIds : JobViewSet_destroy(u, j)
CreateTask == \E u \in Actors, data \in TaskCreateData :
    nextTask <= CoreTasks /\ JobTaskViewSet_create(u, data)
UpdateTask == \E u \in Actors, t \in RequestTaskIds, data \in TaskUpdateData :
    LogRoom(CoreLogs) /\ JobTaskViewSet_update(u, t, data)
DeleteTask == \E u \in Actors, t \in RequestTaskIds : JobTaskViewSet_destroy(u, t)

Next ==
    \/ CreateJob
    \/ UpdateJob
    \/ CompleteJob
    \/ DeleteJob
    \/ CreateTask
    \/ UpdateTask
    \/ DeleteTask

Spec == Init /\ [][Next]_vars

(* ------------- lifecycle core plus direct saves of a Job --------------- *)
DirectSave == \E j \in RequestJobIds, status \in {"in_progress", "completed"} :
    Job_save(j, status)

NextDirect ==
    \/ CreateJob
    \/ UpdateJob
    \/ CreateTask
    \/ UpdateTask
    \/ DirectSave

SpecDirect == Init /\ [][NextDirect]_vars

(* ------------ lifecycle core plus administration of users -------------- *)
UpdateUser == \E u \in Actors, target \in {"t1", "s1"}, data \in UserUpdateData :
    UserViewSet_update(u, target, data)
DeleteUser == \E u \in Actors, target \in {"t1", "s1"} : UserViewSet_destroy(u, target)

NextUsers ==
    \/ CreateJob
    \/ CompleteJob
    \/ CreateTask
    \/ UpdateUser
    \/ DeleteUser

SpecUsers == Init /\ [][NextUsers]_vars

(* ------------------ tasks over time: create and update ----------------- *)
TasksCreateJob == \E u \in Actors, data \in JobCreateData :
    nextJob <= CoreJobs /\ LogRoom(TasksLogs) /\ JobViewSet_create(u, data)
TasksUpdateTask == \E u \in Actors, t \in RequestTaskIds, data \in TaskUpdateData :
    LogRoom(TasksLogs) /\ JobTaskViewSet_update(u, t, data)

NextTasks ==
    \/ TasksCreateJob
    \/ CreateTask
    \/ TasksUpdateTask

SpecTasks == Init /\ [][NextTasks]_vars

(* ------------- audit trail: richer patches, time passing --------------- *)
TaskUnsupplied == [status |-> <<>>, completed_at |-> <<>>]
TaskForged == [status |-> <<"completed">>, completed_at |-> <<1>>]

AuditJobUpdateData ==
    [title : Opt({"B"}), assigned_to_id : Opt({NoUser, "t1"}),
     status : Opt({"in_progress"}), scheduled_date : {<<>>}]

AuditTaskCreateData ==
    {[job |-> j, title |-> <<"T">>, order |-> o,
      status |-> x.status, completed_at |-> x.completed_at] :
        j \in {<<k>> : k \in {k \in JobIds : jobs[k] # NoRow}},
        o \in Opt({-1, 1}), x \in {TaskUnsupplied, TaskForged}}

TaskPatch == [job |-> <<>>, title |-> <<>>, order |-> <<>>, status |-> <<>>]

AuditTaskUpdateData ==
    {[TaskPatch EXCEPT !.status = <<st>>] : st \in {"in_progress", "completed"}}
    \cup {[TaskPatch EXCEPT !.order = <<o>>] : o \in {-1, 1}}
    \cup {[TaskPatch EXCEPT !.title = <<"U">>],
          [TaskPatch EXCEPT !.title = <<"U">>, !.status = <<"completed">>],
          [TaskPatch EXCEPT !.order = <<-1>>, !.status = <<"completed">>]}
    \cup {[TaskPatch EXCEPT !.job = <<j>>, !.status = <<"in_progress">>] : j \in RequestJobIds}

AuditCreateJob == \E u \in Actors, data \in JobCreateData :
    nextJob <= AuditJobs /\ JobViewSet_create(u, data) /\ Len(logs') <= AuditLogs
AuditUpdateJob == \E u \in Actors, j \in RequestJobIds, data \in AuditJobUpdateData :
    JobViewSet_update(u, j, data) /\ Len(logs') <= AuditLogs

NextAudit ==
    \/ AuditCreateJob
    \/ AuditUpdateJob

SpecAudit == Init /\ [][NextAudit]_vars

TaskAuditCreateJob == \E u \in {"a1"}, data \in JobCreateData :
    nextJob <= AuditJobs /\ JobViewSet_create(u, data) /\ Len(logs') <= TaskAuditLogs
TaskAuditCreateTask == \E u \in Actors, data \in AuditTaskCreateData :
    nextTask <= AuditTasks /\ JobTaskViewSet_create(u, data)
TaskAuditUpdateTask == \E u \in Actors, t \in RequestTaskIds, data \in AuditTaskUpdateData :
    JobTaskViewSet_update(u, t, data) /\ Len(logs') <= TaskAuditLogs

NextTaskAudit ==
    \/ TaskAuditCreateJob
    \/ TaskAuditCreateTask
    \/ TaskAuditUpdateTask

SpecTaskAudit == Init /\ [][NextTaskAudit]_vars

(* ------------- task status patches while the clock advances ------------ *)
TaskStatusData ==
    {[TaskPatch EXCEPT !.status = <<st>>] : st \in {"in_progress", "completed"}}

TimeCreateJob == \E u \in Actors, data \in JobCreateData :
    nextJob <= TimeJobs /\ JobViewSet_create(u, data) /\ Len(logs') <= TimeLogs
TimeCreateTask == \E u \in Actors, data \in TaskCreateData :
    nextTask <= TimeTasks /\ JobTaskViewSet_create(u, data)
TimeUpdateTask == \E u \in Actors, t \in RequestTaskIds, data \in TaskStatusData :
    JobTaskViewSet_update(u, t, data) /\ Len(logs') <= TimeLogs

NextTaskTime ==
    \/ TimeCreateJob
    \/ TimeCreateTask
    \/ TimeUpdateTask
    \/ Tick

SpecTaskTime == Init /\ [][NextTaskTime]_vars

(* ------------------- the overdue sweep over the days ------------------- *)
SweepJobCreateData ==
    {[title |-> <<"A">>, assigned_to_id |-> <<>>, scheduled_date |-> <<d>>,
      created_by |-> <<>>, status |-> <<>>, overdue |-> <<>>] : d \in {now - 1, now + 1}}

SweepJobUpdateData ==
    [title : {<<>>}, assigned_to_id : {<<>>},
     status : {<<"in_progress">>, <<"completed">>, <<"cancelled">>}, scheduled_date : {<<>>}]

SweepCreateJob == \E data \in SweepJobCreateData :
    nextJob <= SweepJobs /\ JobViewSet_create("a1", data) /\ Len(logs') <= SweepLogs
SweepUpdateJob == \E j \in RequestJobIds, data \in SweepJobUpdateData :
    JobViewSet_update("a1", j, data) /\ Len(logs') <= SweepLogs
Sweep == check_overdue_jobs

NextSweep ==
    \/ SweepCreateJob
    \/ SweepUpdateJob
    \/ Sweep
    \/ Tick

SpecSweep == Init /\ [][NextSweep]_vars

(* ------------------ job listings after reassignments ------------------- *)
ReassignData ==
    [title : {<<>>}, assigned_to_id : {<<NoUser>>, <<"t1">>, <<"t2">>},
     status : {<<>>}, scheduled_date : {<<>>}]

ListCreateJob == \E u \in Actors, data \in JobCreateData :
    nextJob <= ListJobs /\ JobViewSet_create(u, data) /\ Len(logs') <= ListLogs
ListReassignJob == \E u \in Actors, j \in RequestJobIds, data \in ReassignData :
    JobViewSet_update(u, j, data) /\ Len(logs') <= ListLogs
ListJobsRequest == \E u \in Actors : JobViewSet_list(u)
RetrieveJobRequest == \E u \in Actors, j \in RequestJobIds : JobViewSet_retrieve(u, j)

NextJobList ==
    \/ ListCreateJob
    \/ ListReassignJob
    \/ ListJobsRequest
    \/ RetrieveJobRequest

SpecJobList == Init /\ [][NextJobList]_vars

(* --------------------------- task listings ------------------------------ *)
OrderedTaskCreateData ==
    [job : {<<j>> : j \in RequestJobIds}, title : {<<"T">>}, order : Opt({1}),
     status : {<<>>}]

TaskListCreateJob == \E data \in JobCreateData :
    nextJob <= TaskListJobs /\ JobViewSet_create("a1", data)
TaskListCreateTask == \E u \in Actors, data \in OrderedTaskCreateData :
    nextTask <= TaskListTasks /\ JobTaskViewSet_create(u, data)
ListTasksRequest == \E u \in Actors, job_id \in Opt(RequestJobIds) :
    JobTaskViewSet_list(u, job_id)
RetrieveTaskRequest == \E u \in Actors, t \in RequestTaskIds : JobTaskViewSet_retrieve(u, t)

NextTaskList ==
    \/ TaskListCreateJob
    \/ TaskListCreateTask
    \/ ListTasksRequest
    \/ RetrieveTaskRequest
    \/ RetrieveJobRequest

SpecTaskList == Init /\ [][NextTaskList]_vars

(* ------------------- the audit trail over the months ------------------- *)
DaysPass(d) ==
    /\ now + d <= RetentionMaxNow
    /\ now' = now + d
    /\ resp' = Response("none", 0)
    /\ UNCHANGED <<users, jobs, nextJob, tasks, nextTask, logs, perm, equipment, inflight>>

RetentionCreateJob == \E u \in Actors, data \in JobCreateData :
    nextJob <= RetentionJobs /\ JobViewSet_create(u, data) /\ Len(logs') <= RetentionLogs
RetentionUpdateJob == \E u \in Actors, j \in RequestJobIds, data \in AuditJobUpdateData :
    JobViewSet_update(u, j, data) /\ Len(logs') <= RetentionLogs
RetentionDeleteJob == \E u \in Actors, j \in RequestJobIds : JobViewSet_destroy(u, j)
RetentionDaysPass == \E d \in {RETENTION_DAYS, RETENTION_DAYS + 1} : DaysPass(d)
RetentionSweep == cleanup_old_logs
AdminChangeLog == \E u \in Actors, i \in 1..RetentionLogs :
    JobChangeLogAdmin_change_view(u, i, "edited")
AdminDeleteLog == \E u \in Actors, i \in 1..RetentionLogs :
    JobChangeLogAdmin_delete_view(u, i)

NextRetention ==
    \/ RetentionCreateJob
    \/ RetentionUpdateJob
    \/ RetentionDeleteJob
    \/ RetentionDaysPass
    \/ RetentionSweep
    \/ AdminChangeLog
    \/ AdminDeleteLog

SpecRetention == Init /\ [][NextRetention]_vars

(* ------------------- tasks and the equipment catalog ------------------- *)
EquipmentData == [is_active : Opt(BOOLEAN)]

EquipTaskCreateData ==
    [job : {<<j>> : j \in RequestJobIds}, title : {<<"T">>}, order : {<<>>},
     required_equipment_ids : Opt(SUBSET EquipmentIds)]

EquipTaskUpdateData ==
    [job : {<<>>}, title : {<<>>}, order : {<<>>}, status : {<<>>},
     required_equipment_ids : Opt(SUBSET EquipmentIds)]

EquipCreateJob == \E data \in JobCreateData :
    nextJob <= EquipJobs /\ JobViewSet_create("a1", data)
CreateEquipment == \E u \in {"a1", "t1"}, data \in EquipmentData :
    EquipmentViewSet_create(u, data)
UpdateEquipment == \E u \in {"a1", "t1"}, e \in EquipmentIds, data \in EquipmentData :
    EquipmentViewSet_update(u, e, data)
EquipCreateTask == \E u \in {"a1", "t1"}, data \in EquipTaskCreateData :
    nextTask <= EquipTasks /\ JobTaskViewSet_create(u, data)
EquipUpdateTask == \E u \in {"a1", "t1"}, t \in RequestTaskIds, data \in EquipTaskUpdateData :
    JobTaskViewSet_update(u, t, data)

NextEquipment ==
    \/ EquipCreateJob
    \/ CreateEquipment
    \/ UpdateEquipment
    \/ EquipCreateTask
    \/ EquipUpdateTask

SpecEquipment == Init /\ [][NextEquipment]_vars

(* ------------------ task patches that name another job ---------------- *)
MoveTaskUpdateData ==
    {[TaskPatch EXCEPT !.job = <<j>>] : j \in JobIds}
    \cup {[TaskPatch EXCEPT !.status = <<"in_progress">>]}

MoveCreateJob == \E data \in JobCreateData :
    nextJob <= MoveJobs /\ JobViewSet_create("a1", data) /\ Len(logs') <= MoveLogs
MoveCreateTask == \E u \in Actors, data \in OrderedTaskCreateData :
    nextTask <= MoveTasks /\ JobTaskViewSet_create(u, data)
MoveUpdateTask == \E u \in Actors, t \in RequestTaskIds, data \in MoveTaskUpdateData :
    JobTaskViewSet_update(u, t, data) /\ Len(logs') <= MoveLogs

NextTaskMove ==
    \/ MoveCreateJob
    \/ MoveCreateTask
    \/ MoveUpdateTask

SpecTaskMove == Init /\ [][NextTaskMove]_vars

(* ============== the write endpoints, one database call a step ========== *)
(* No view opens a transaction, so every ORM call commits on its own and    *)
(* calls of requests that run at the same time interleave.  A worker holds  *)
(* the request it serves and the objects that request has in memory.        *)
Request(op, u, pk, data) ==
    [pc |-> "begin", op |-> op, user |-> u, pk |-> pk, data |-> data,
     instance |-> NoRow, old |-> NoRow, code |-> 0, at |-> "none"]

Proceed(w, r) ==
    /\ inflight' = [inflight EXCEPT ![w] = r]
    /\ resp' = resp

Answer(w, r, code) ==
    /\ inflight' = [inflight EXCEPT ![w] = [r EXCEPT !.pc = "done", !.code = code, !.at = r.pc]]
    /\ resp' = Response(r.op, code)

At(w, op, pc) == inflight[w] # Idle /\ inflight[w].op = op /\ inflight[w].pc = pc

(* UpdateModelMixin.update: instance = self.get_object() *)
JobViewSet_update_get_object(w, u, j, data) ==
    /\ inflight[w] = Idle
    /\ LET r == Request("update_job", u, j, data) IN
       IF ~ JobViewSet_check_permissions("PATCH", "partial_update", u)
       THEN Answer(w, r, 403)
       ELSE IF j \notin JobViewSet_get_queryset(u)
       THEN Answer(w, r, 404)
       ELSE IF ~ has_object_permission("PATCH", u, jobs[j])
       THEN Answer(w, r, 403)
       ELSE Proceed(w, [r EXCEPT !.pc = "is_valid", !.instance = jobs[j]])
    /\ UNCHANGED <<users, jobs, nextJob, tasks, nextTask, logs, now, perm, equipment>>

(* serializer.is_valid: the technician look-up and validate(), whose        *)
(* can_complete() queries the tasks                                         *)
JobViewSet_update_is_valid(w) ==
    /\ At(w, "update_job", "is_valid")
    /\ LET r == inflight[w] IN
       IF ~ JobUpdateSerializer_is_valid(r.instance, r.pk, r.data)
       THEN Answer(w, r, 400)
       ELSE Proceed(w, [r EXCEPT !.pc = "old_instance"])
    /\ UNCHANGED <<users, jobs, nextJob, tasks, nextTask, logs, now, perm, equipment>>

(* perform_update: old_instance = self.get_object(), a second read; then    *)
(* the serializer sets the validated attributes on the first instance       *)
JobViewSet_perform_update_get_object(w) ==
    /\ At(w, "update_job", "old_instance")
    /\ LET r == inflight[w] IN
       IF r.pk \notin JobViewSet_get_queryset(r.user)
       THEN Answer(w, r, 404)
       ELSE IF ~ has_object_permission("PATCH", r.user, jobs[r.pk])
       THEN Answer(w, r, 403)
       ELSE Proceed(w, [r EXCEPT !.pc = "full_clean",
                                 !.old = [status |-> jobs[r.pk].status,
                                          assigned_to |-> jobs[r.pk].assigned_to],
                                 !.instance = JobUpdateSerializer_update(r.instance, r.data)])
    /\ UNCHANGED <<users, jobs, nextJob, tasks, nextTask, logs, now, perm, equipment>>

(* JobViewSet.complete: job = self.get_object() *)
JobViewSet_complete_get_object(w, u, j) ==
    /\ inflight[w] = Idle
    /\ LET r == Request("complete_job", u, j, <<>>) IN
       IF ~ JobViewSet_check_permissions("POST", "complete", u)
       THEN Answer(w, r, 403)
       ELSE IF j \notin JobViewSet_get_queryset(u)
       THEN Answer(w, r, 404)
       ELSE IF ~ has_object_permission("POST", u, jobs[j])
       THEN Answer(w, r, 403)
       ELSE Proceed(w, [r EXCEPT !.pc = "can_complete", !.instance = jobs[j]])
    /\ UNCHANGED <<users, jobs, nextJob, tasks, nextTask, logs, now, perm, equipment>>

(* if not job.can_complete(): 400; else job.status = 'completed' *)
JobViewSet_complete_can_complete(w) ==
    /\ At(w, "complete_job", "can_complete")
    /\ LET r == inflight[w] IN
       IF ~ can_complete(r.pk)
       THEN Answer(w, r, 400)
       ELSE Proceed(w, [r EXCEPT !.pc = "full_clean", !.instance.status = "completed"])
    /\ UNCHANGED <<users, jobs, nextJob, tasks, nextTask, logs, now, perm, equipment>>

(* JobViewSet.create: the serializer validates and builds the Job *)
JobViewSet_create_is_valid(w, u, data) ==
    /\ inflight[w] = Idle
    /\ LET r == Request("create_job", u, NoJob, data) IN
       IF ~ JobViewSet_check_permissions("POST", "create", u)
       THEN Answer(w, r, 403)
       ELSE IF ~ JobCreateSerializer_is_valid(data)
       THEN Answer(w, r, 400)
       ELSE Proceed(w, [r EXCEPT !.pc = "full_clean",
                                 !.instance = JobCreateSerializer_create(data, u)])
    /\ UNCHANGED <<users, jobs, nextJob, tasks, nextTask, logs, now, perm, equipment>>

(* Job.save, first half: self.full_clean() *)
Job_save_full_clean(w) ==
    /\ inflight[w] # Idle
    /\ inflight[w].op \in {"create_job", "update_job", "complete_job"}
    /\ inflight[w].pc = "full_clean"
    /\ LET r == inflight[w] IN
       IF ~ Job_full_clean(r.instance, r.pk)
       THEN Answer(w, r, 500)
       ELSE Proceed(w, [r EXCEPT !.pc = "save"])
    /\ UNCHANGED <<users, jobs, nextJob, tasks, nextTask, logs, now, perm, equipment>>

(* Job.save, second half: super().save() writes every column of the row   *)
(* from the instance in memory (an INSERT when the instance has no pk)      *)
Job_save_super(w) ==
    /\ inflight[w] # Idle
    /\ inflight[w].op \in {"create_job", "update_job", "complete_job"}
    /\ inflight[w].pc = "save"
    /\ LET r == inflight[w] IN
       IF r.pk = NoJob
       THEN /\ nextJob \in JobIds
            /\ jobs' = [jobs EXCEPT ![nextJob] = r.instance]
            /\ nextJob' = nextJob + 1
            /\ Proceed(w, [r EXCEPT !.pc = "log", !.pk = nextJob])
       ELSE /\ jobs' = [jobs EXCEPT ![r.pk] = r.instance]
            /\ nextJob' = nextJob
            /\ Proceed(w, [r EXCEPT !.pc = "log"])
    /\ UNCHANGED <<users, tasks, nextTask, logs, now, perm, equipment>>

(* UpdateModelMixin.update on a task: instance = self.get_object() *)
JobTaskViewSet_update_get_object(w, u, t, data) ==
    /\ inflight[w] = Idle
    /\ LET r == Request("update_task", u, t, data) IN
       IF ~ JobTaskViewSet_check_permissions(u)
       THEN Answer(w, r, 403)
       ELSE IF t \notin JobTaskViewSet_get_queryset(u)
       THEN Answer(w, r, 404)
       ELSE IF ~ has_object_permission("PATCH", u, tasks[t])
       THEN Answer(w, r, 403)
       ELSE Proceed(w, [r EXCEPT !.pc = "is_valid", !.instance = tasks[t]])
    /\ UNCHANGED <<users, jobs, nextJob, tasks, nextTask, logs, now, perm, equipment>>

JobTaskViewSet_update_is_valid(w) ==
    /\ At(w, "update_task", "is_valid")
    /\ LET r == inflight[w] IN
       IF ~ JobTaskSerializer_is_valid(r.instance, r.data)
       THEN Answer(w, r, 400)
       ELSE Proceed(w, [r EXCEPT !.pc = "old_status"])
    /\ UNCHANGED <<users, jobs, nextJob, tasks, nextTask, logs, now, perm, equipment>>

(* perform_update: old_status = self.get_object().status, a second read *)
JobTaskViewSet_perform_update_get_object(w) ==
    /\ At(w, "update_task", "old_status")
    /\ LET r == inflight[w] IN
       IF r.pk \notin JobTaskViewSet_get_queryset(r.user)
       THEN Answer(w, r, 404)
       ELSE IF ~ has_object_permission("PATCH", r.user, tasks[r.pk])
       THEN Answer(w, r, 403)
       ELSE Proceed(w, [r EXCEPT !.pc = "save", !.old = [status |-> tasks[r.pk].status]])
    /\ UNCHANGED <<users, jobs, nextJob, tasks, nextTask, logs, now, perm, equipment>>

JobTaskViewSet_update_save_ByJob(w) ==
    /\ At(w, "update_task", "save")
    /\ LET r == inflight[w]
           task == JobTask_save(JobTaskSerializer_update(r.instance, r.data))
       IN /\ tasks' = [t \in TaskIds |->
                          IF tasks[t] # NoRow /\ tasks[t].job = task.job
                          THEN [tasks[t] EXCEPT !.status = task.status,
                                                !.completed_at = task.completed_at]
                          ELSE tasks[t]]
          /\ Proceed(w, [r EXCEPT !.pc = "log", !.instance = task])
    /\ UNCHANGED <<users, jobs, nextJob, nextTask, logs, now, perm, equipment>>

(* serializer.save(): the attributes are set, JobTask.save stamps           *)
(* completed_at and writes every column of the row                          *)
JobTaskViewSet_update_save(w) ==
    /\ At(w, "update_task", "save")
    /\ LET r == inflight[w]
           task == JobTask_save(JobTaskSerializer_update(r.instance, r.data))
       IN /\ tasks' = [tasks EXCEPT ![r.pk] = task]
          /\ Proceed(w, [r EXCEPT !.pc = "log", !.instance = task])
    /\ UNCHANGED <<users, jobs, nextJob, nextTask, logs, now, perm, equipment>>

(* JobTaskViewSet.create: validation, then the INSERT *)
JobTaskViewSet_create_is_valid(w, u, data) ==
    /\ inflight[w] = Idle
    /\ LET r == Request("create_task", u, 0, data) IN
       IF ~ JobTaskViewSet_check_permissions(u)
       THEN Answer(w, r, 403)
       ELSE IF ~ JobTaskCreateSerializer_is_valid(data)
       THEN Answer(w, r, 400)
       ELSE Proceed(w, [r EXCEPT !.pc = "save"])
    /\ UNCHANGED <<users, jobs, nextJob, tasks, nextTask, logs, now, perm, equipment>>

JobTaskViewSet_create_save(w) ==
    /\ At(w, "create_task", "save")
    /\ nextTask \in TaskIds
    /\ LET r == inflight[w]
           task == JobTask_save(JobTaskCreateSerializer_create(r.data))
       IN /\ tasks' = [tasks EXCEPT ![nextTask] = task]
          /\ nextTask' = nextTask + 1
          /\ Answer(w, [r EXCEPT !.pk = nextTask, !.instance = task], 201)
    /\ UNCHANGED <<users, jobs, nextJob, logs, now, perm, equipment>>

(* the audit write that ends create_job, update_job, complete_job and       *)
(* update_task.  ok = FALSE: the INSERT raises (the store is unavailable);  *)
(* the exception leaves the view and what was saved before stays saved.     *)
JobChangeLog_objects_create(w, ok) ==
    /\ inflight[w] # Idle
    /\ inflight[w].pc = "log"
    /\ LET r == inflight[w]
           changes == IF r.op = "update_job"
                      THEN perform_update_changes(r.old, r.instance)
                      ELSE <<>>
           wanted == CASE r.op = "update_job" -> DOMAIN changes # {}
                       [] r.op = "update_task" -> r.old.status # r.instance.status
                       [] OTHER -> TRUE
           entry == CASE r.op = "create_job" ->
                            LogEntry(r.pk, r.user, "created",
                                [status |-> "Job created", title |-> r.instance.title])
                      [] r.op = "update_job" -> LogEntry(r.pk, r.user, "updated", changes)
                      [] r.op = "complete_job" ->
                            LogEntry(r.pk, r.user, "completed",
                                [status |-> "Job marked as completed"])
                      [] r.op = "update_task" ->
                            LogEntry(r.instance.job, r.user, "task_updated",
                                [task_id |-> r.pk, task_title |-> r.instance.title,
                                 old_status |-> r.old.status,
                                 new_status |-> r.instance.status])
           success == IF r.op = "create_job" THEN 201 ELSE 200
       IN IF ~ wanted
          THEN ok /\ logs' = logs /\ Answer(w, r, success)
          ELSE IF ok
          THEN logs' = Append(logs, entry) /\ Answer(w, r, success)
          ELSE logs' = logs /\ Answer(w, r, 500)
    /\ UNCHANGED <<users, jobs, nextJob, tasks, nextTask, now, perm, equipment>>

AllAnswered == \A w \in Workers : inflight[w] = Idle \/ inflight[w].pc = "done"
NoneInFlight == \A w \in Workers : inflight[w] = Idle

(* ------------- one request at a time, the audit write may fail --------- *)
OthersQuiet(w) == \A v \in Workers \ {w} : inflight[v] = Idle \/ inflight[v].pc = "done"

FailSetupJob == \E data \in JobCreateData :
    NoneInFlight /\ nextJob <= FailJobs /\ JobViewSet_create("a1", data)
FailSetupTask == \E data \in TaskCreateData :
    NoneInFlight /\ nextTask <= FailTasks /\ JobTaskViewSet_create("a1", data)
FailCreateJob == \E w \in Workers, u \in {"a1", "t1"}, data \in JobCreateData :
    OthersQuiet(w) /\ nextJob <= FailJobs /\ JobViewSet_create_is_valid(w, u, data)
FailUpdateJob == \E w \in Workers, u \in {"a1", "t1"}, j \in RequestJobIds,
                    data \in AuditJobUpdateData :
    OthersQuiet(w) /\ JobViewSet_update_get_object(w, u, j, data)
FailCompleteJob == \E w \in Workers, u \in {"a1", "t1"}, j \in RequestJobIds :
    OthersQuiet(w) /\ JobViewSet_complete_get_object(w, u, j)
FailUpdateTask == \E w \in Workers, u \in {"a1", "t1"}, t \in RequestTaskIds,
                     data \in TaskStatusData :
    OthersQuiet(w) /\ JobTaskViewSet_update_get_object(w, u, t, data)
UpdateJobIsValid == \E w \in Workers : JobViewSet_update_is_valid(w)
UpdateJobOldInstance == \E w \in Workers : JobViewSet_perform_update_get_object(w)
CompleteJobCanComplete == \E w \in Workers : JobViewSet_complete_can_complete(w)
JobFullClean == \E w \in Workers : Job_save_full_clean(w)
JobSave == \E w \in Workers : Job_save_super(w)
UpdateTaskIsValid == \E w \in Workers : JobTaskViewSet_update_is_valid(w)
UpdateTaskOldStatus == \E w \in Workers : JobTaskViewSet_perform_update_get_object(w)
UpdateTaskSave == \E w \in Workers : JobTaskViewSet_update_save(w)
FailAuditWrite == \E w \in Workers, ok \in BOOLEAN :
    JobChangeLog_objects_create(w, ok) /\ Len(logs') <= FailLogs

NextAuditFailure ==
    \/ FailSetupJob
    \/ FailSetupTask
    \/ FailCreateJob
    \/ FailUpdateJob
    \/ FailCompleteJob
    \/ FailUpdateTask
    \/ UpdateJobIsValid
    \/ UpdateJobOldInstance
    \/ CompleteJobCanComplete
    \/ JobFullClean
    \/ JobSave
    \/ UpdateTaskIsValid
    \/ UpdateTaskOldStatus
    \/ UpdateTaskSave
    \/ FailAuditWrite

SpecAuditFailure == Init /\ [][NextAuditFailure]_vars

(* ---------- completing a job while its tasks are being written --------- *)
(* requests that overlap: one arrives while another is being served *)
Overlapping(w) ==
    \/ NoneInFlight
    \/ \E v \in Workers \ {w} : inflight[v] # Idle /\ inflight[v].pc # "done"

CompletingData ==
    [title : {<<>>}, assigned_to_id : {<<>>}, status : {<<"completed">>},
     scheduled_date : {<<>>}]

RaceSetupJob == \E data \in JobCreateData :
    NoneInFlight /\ nextJob <= RaceJobs /\ JobViewSet_create("a1", data)
RaceSetupTask == \E data \in OrderedTaskCreateData :
    NoneInFlight /\ nextTask < RaceTasks /\ JobTaskViewSet_create("a1", data)
RaceSetupTaskStatus == \E t \in RequestTaskIds, data \in TaskStatusData :
    NoneInFlight /\ JobTaskViewSet_update("a1", t, data) /\ Len(logs') < RaceLogs - 1
RaceCompleteJob == \E w \in Workers, u \in {"a1", "t1"}, j \in RequestJobIds :
    Overlapping(w) /\ JobViewSet_complete_get_object(w, u, j)
RaceUpdateJob == \E w \in Workers, u \in {"a1", "t1"}, j \in RequestJobIds,
                    data \in CompletingData :
    Overlapping(w) /\ JobViewSet_update_get_object(w, u, j, data)
RaceCreateTask == \E w \in Workers, u \in {"a1", "t1"}, data \in OrderedTaskCreateData :
    Overlapping(w) /\ JobTaskViewSet_create_is_valid(w, u, data)
RaceUpdateTask == \E w \in Workers, u \in {"a1", "t1"}, t \in RequestTaskIds,
                     data \in TaskStatusData :
    Overlapping(w) /\ JobTaskViewSet_update_get_object(w, u, t, data)
CreateTaskSave == \E w \in Workers : JobTaskViewSet_create_save(w)
AuditWrite == \E w \in Workers : JobChangeLog_objects_create(w, TRUE)

NextCompleteRace ==
    \/ RaceSetupJob
    \/ RaceSetupTask
    \/ RaceSetupTaskStatus
    \/ RaceCompleteJob
    \/ RaceUpdateJob
    \/ RaceCreateTask
    \/ RaceUpdateTask
    \/ UpdateJobIsValid
    \/ UpdateJobOldInstance
    \/ CompleteJobCanComplete
    \/ JobFullClean
    \/ JobSave
    \/ UpdateTaskIsValid
    \/ UpdateTaskOldStatus
    \/ UpdateTaskSave
    \/ CreateTaskSave
    \/ AuditWrite

SpecCompleteRace == Init /\ [][NextCompleteRace]_vars

(* ------------------- two writes to the same job ------------------------ *)
JobFieldData ==
    {data \in [title : {<<>>}, assigned_to_id : Opt({NoUser, "t1"}),
               status : Opt({"in_progress"}), scheduled_date : {<<>>}] :
        data.status # <<>> \/ data.assigned_to_id # <<>>}

JobRaceUpdateJob == \E w \in Workers, u \in {"a1", "t1"}, j \in RequestJobIds,
                       data \in JobFieldData :
    Overlapping(w) /\ JobViewSet_update_get_object(w, u, j, data)

NextJobRace ==
    \/ RaceSetupJob
    \/ JobRaceUpdateJob
    \/ UpdateJobIsValid
    \/ UpdateJobOldInstance
    \/ JobFullClean
    \/ JobSave
    \/ AuditWrite

SpecJobRace == Init /\ [][NextJobRace]_vars

(* ---------------- two writes to the tasks of one job ------------------- *)
TaskRaceData ==
    {[TaskPatch EXCEPT !.status = <<st>>] : st \in {"pending", "in_progress", "completed"}}

TaskRaceSetupJob == \E data \in JobCreateData :
    NoneInFlight /\ nextJob <= TaskRaceJobs /\ JobViewSet_create("a1", data)
TaskRaceSetupTask == \E data \in OrderedTaskCreateData :
    NoneInFlight /\ nextTask <= TaskRaceTasks /\ JobTaskViewSet_create("a1", data)
TaskRaceUpdateTask == \E w \in Workers, u \in {"a1", "t1"}, t \in RequestTaskIds,
                         data \in TaskRaceData :
    Overlapping(w) /\ JobTaskViewSet_update_get_object(w, u, t, data)

NextTaskRace ==
    \/ TaskRaceSetupJob
    \/ TaskRaceSetupTask
    \/ TaskRaceUpdateTask
    \/ UpdateTaskIsValid
    \/ UpdateTaskOldStatus
    \/ UpdateTaskSave
    \/ AuditWrite

SpecTaskRace == Init /\ [][NextTaskRace]_vars

(* ------------- every operation in turn on flagged jobs ----------------- *)
(* a patch may carry an 'overdue' key, which Meta.fields does not list *)
OverdueJobUpdateData ==
    LET listed == [title : {<<>>}, assigned_to_id : {<<>>},
                   status : Opt({"in_progress", "completed", "cancelled"}),
                   scheduled_date : Opt({now + 1})]
    IN listed \cup {[title |-> d.title, assigned_to_id |-> d.assigned_to_id,
                     status |-> d.status, scheduled_date |-> d.scheduled_date,
                     overdue |-> <<FALSE>>] : d \in listed}

OverdueCreateJob == \E data \in SweepJobCreateData :
    nextJob <= OverdueJobs /\ JobViewSet_create("a1", data) /\ Len(logs') <= OverdueLogs
OverdueUpdateJob == \E j \in RequestJobIds, data \in OverdueJobUpdateData :
    JobViewSet_update("a1", j, data) /\ Len(logs') <= OverdueLogs
OverdueCompleteJob == \E j \in RequestJobIds :
    JobViewSet_complete("a1", j) /\ Len(logs') <= OverdueLogs
OverdueCreateTask == \E data \in OrderedTaskCreateData :
    nextTask <= OverdueTasks /\ JobTaskViewSet_create("a1", data)
OverdueUpdateTask == \E t \in RequestTaskIds, data \in TaskStatusData :
    JobTaskViewSet_update("a1", t, data) /\ Len(logs') <= OverdueLogs

NextOverdue ==
    \/ OverdueCreateJob
    \/ OverdueUpdateJob
    \/ OverdueCompleteJob
    \/ OverdueCreateTask
    \/ OverdueUpdateTask
    \/ Sweep

SpecOverdue == Init /\ [][NextOverdue]_vars

(* ------------- the overdue sweep while a job is being written ---------- *)
SweepRaceJobData ==
    [title : {<<>>}, assigned_to_id : Opt({"t1"}),
     status : Opt({"in_progress", "completed", "cancelled"}), scheduled_date : {<<>>}]

SweepRaceSetupJob == \E data \in SweepJobCreateData :
    NoneInFlight /\ nextJob <= SweepRaceJobs /\ JobViewSet_create("a1", data)
SweepRaceUpdateJob == \E w \in Workers, j \in RequestJobIds, data \in SweepRaceJobData :
    JobViewSet_update_get_object(w, "a1", j, data)
SweepRaceCompleteJob == \E w \in Workers, j \in RequestJobIds :
    JobViewSet_complete_get_object(w, "a1", j)

NextSweepRace ==
    \/ SweepRaceSetupJob
    \/ SweepRaceUpdateJob
    \/ SweepRaceCompleteJob
    \/ UpdateJobIsValid
    \/ UpdateJobOldInstance
    \/ CompleteJobCanComplete
    \/ JobFullClean
    \/ JobSave
    \/ AuditWrite
    \/ Sweep

SpecSweepRace == Init /\ [][NextSweepRace]_vars

(* ---------------- permission checks as pure evaluations ---------------- *)
Requests == {<<"GET", "list">>, <<"GET", "retrieve">>, <<"POST", "create">>,
             <<"PUT", "update">>, <<"PATCH", "partial_update">>, <<"DELETE", "destroy">>}

view_check_permissions(view, method, action, u) ==
    CASE view = "jobs" -> JobViewSet_check_permissions(method, action, u)
      [] view = "tasks" -> JobTaskViewSet_check_permissions(u)
      [] view = "equipment" -> CanManageEquipment_has_permission(method, u)
      [] view = "users" -> CanManageUsers_has_permission(method, u)

CheckPermissions ==
    \E view \in {"jobs", "tasks", "equipment", "users"}, r \in Requests,
       u \in Actors \cup {Anon} :
        /\ perm' = [view |-> view, method |-> r[1], action |-> r[2], user |-> u,
                    target |-> 0,
                    granted |-> view_check_permissions(view, r[1], r[2], u)]
        /\ UNCHANGED <<users, jobs, nextJob, tasks, nextTask, logs, now, resp, equipment, inflight>>

CheckObjectPermissions ==
    \E view \in {"jobs", "tasks"}, r \in Requests \ {<<"GET", "list">>, <<"POST", "create">>},
       u \in Actors, id \in 1..1 :
        /\ IF view = "jobs" THEN JobExists(id) ELSE TaskExists(id)
        /\ perm' = [view |-> view, method |-> r[1], action |-> "object", user |-> u,
                    target |-> id,
                    granted |-> has_object_permission(r[1], u,
                                    IF view = "jobs" THEN jobs[id] ELSE tasks[id])]
        /\ UNCHANGED <<users, jobs, nextJob, tasks, nextTask, logs, now, resp, equipment, inflight>>

InitPerm ==
    \E creator \in {"a1", "s1"}, assignee \in {NoUser, "t1", "t2"} :
        /\ users = InitialUsers
        /\ jobs = [j \in JobIds |-> IF j = 1
                      THEN [title |-> "A", created_by |-> creator, assigned_to |-> assignee,
                            status |-> "pending", scheduled_date |-> 2,
                            overdue |-> FALSE]
                      ELSE NoRow]
        /\ nextJob = 2
        /\ tasks = [t \in TaskIds |-> IF t = 1
                       THEN [job |-> 1, title |-> "T", status |-> "pending", order |-> 0,
                             completed_at |-> NoTime, created_at |-> 1,
                             required_equipment |-> {}]
                       ELSE NoRow]
        /\ nextTask = 2
        /\ logs = << [job |-> 1, user |-> creator, action |-> "created",
                      changes |-> [status |-> "Job created", title |-> "A"],
                      timestamp |-> 1] >>
        /\ now = 1
        /\ resp = Response("none", 0)
        /\ perm = NoPerm
        /\ equipment = [e \in EquipmentIds |-> NoRow]
        /\ inflight = [w \in Workers |-> Idle]

NextPerm ==
    \/ CheckPermissions
    \/ CheckObjectPermissions

SpecPerm == InitPerm /\ [][NextPerm]_vars

(* ============================== properties ============================= *)
OpenStatuses == {"pending", "in_progress"}

HasOpenTask(j) ==
    \E t \in TaskIds : tasks[t] # NoRow /\ tasks[t].job = j /\ tasks[t].status \in OpenStatuses

Authorized(u, job) ==
    \/ users[u].role = "admin"
    \/ users[u].role = "technician" /\ job.assigned_to = u
    \/ users[u].role = "sales_agent" /\ job.created_by = u

StoreUnchanged == UNCHANGED <<users, jobs, nextJob, tasks, nextTask, logs>>

(* C1: in every reachable state a Job whose status is 'completed' owns no   *)
(* Task whose status is 'pending' or 'in_progress'.                         *)
C1_CompletedJobHasNoOpenTask ==
    \A j \in JobIds : (jobs[j] # NoRow /\ jobs[j].status = "completed") => ~ HasOpenTask(j)

(* C2: every persisted Task has completed_at set if and only if its status  *)
(* is 'completed'.                                                          *)
C2_CompletedAtIffCompleted ==
    \A t \in TaskIds : tasks[t] # NoRow =>
        (tasks[t].completed_at # NoTime <=> tasks[t].status = "completed")

C2_Witness ==
    \E t \in TaskIds :
        /\ tasks[t] # NoRow
        /\ tasks[t].status = "in_progress"
        /\ tasks[t].completed_at = NoTime
        /\ \E i \in 1..Len(logs) :
              /\ logs[i].action = "task_updated"
              /\ logs[i].changes.task_id = t
              /\ logs[i].changes.old_status = "completed"

(* C3: complete_job on a Job that owns an open Task fails with a client     *)
(* error, leaves the Job as it was and writes no ChangeLog entry.           *)
C3_CompleteRefusedWithOpenTask ==
    [][resp'.op = "complete_job" =>
         \/ (resp'.code \in 400..499 /\ jobs' = jobs /\ logs' = logs)
         \/ \A j \in JobIds : (jobs[j] # NoRow /\ HasOpenTask(j)) =>
               \A u \in Users : is_authenticated(u) => ~ JobViewSet_complete(u, j)]_vars

C3_Witness ==
    /\ resp.op = "complete_job"
    /\ resp.code = 400
    /\ \A j \in JobIds : jobs[j] # NoRow => (jobs[j].status = "pending" /\ HasOpenTask(j))
    /\ \E j \in JobIds : jobs[j] # NoRow

(* C4: complete_job by an authorized actor on a Job with no open Task       *)
(* succeeds, sets the status to 'completed' and adds exactly one ChangeLog  *)
(* entry, with action 'completed', to that Job.                             *)
C4_CompleteSucceedsWithoutOpenTask ==
    [][\A u \in Users, j \in JobIds :
         (resp'.op = "complete_job"
            /\ is_authenticated(u) /\ jobs[j] # NoRow /\ Authorized(u, jobs[j])
            /\ ~ HasOpenTask(j) /\ JobViewSet_complete(u, j))
         => /\ resp'.code = 200
            /\ jobs'[j].status = "completed"
            /\ Len(logs') = Len(logs) + 1
            /\ SubSeq(logs', 1, Len(logs)) = logs
            /\ logs'[Len(logs')].action = "completed"
            /\ logs'[Len(logs')].job = j]_vars

(* C5: a write that would store a Job as 'completed' while it owns an open  *)
(* Task (an update_job patch, or a direct status edit followed by save) is  *)
(* rejected in full: the stored Job is unchanged and nothing is logged.     *)
C5_CompletingWriteRejectedInFull ==
    [][\/ (resp'.code >= 400 /\ jobs' = jobs /\ logs' = logs)
       \/ resp'.op \notin {"update_job", "job_save"}
       \/ \A j \in JobIds : (jobs[j] # NoRow /\ HasOpenTask(j)) =>
             /\ ~ Job_save(j, "completed")
             /\ \A data \in JobUpdateData :
                   Get(data.status, jobs[j].status) = "completed" =>
                      \A u \in Users : is_authenticated(u) => ~ JobViewSet_update(u, j, data)]_vars

C5_Witness ==
    /\ resp.op \in {"update_job", "job_save"}
    /\ resp.code \in {400, 500}
    /\ \A j \in JobIds : jobs[j] # NoRow => (jobs[j].status = "in_progress" /\ HasOpenTask(j))
    /\ \E j \in JobIds : jobs[j] # NoRow

C7_DeniedActorNoSideEffects ==
    [][\/ (resp'.code \in {403, 404} /\ StoreUnchanged)
       \/ resp'.op \notin {"update_job", "complete_job", "update_task"}
       \/ \A u \in Users : is_authenticated(u) =>
             /\ \A j \in JobIds : (jobs[j] # NoRow /\ ~ Authorized(u, jobs[j])) =>
                   /\ ~ JobViewSet_complete(u, j)
                   /\ \A data \in JobUpdateData : ~ JobViewSet_update(u, j, data)
             /\ \A t \in TaskIds :
                   (tasks[t] # NoRow /\ ~ Authorized(u, jobs[tasks[t].job])) =>
                      \A data \in TaskUpdateData : ~ JobTaskViewSet_update(u, t, data)]_vars

C7_Witness ==
    /\ resp.op = "update_task"
    /\ resp.code = 403
    /\ \E t \in TaskIds : tasks[t] # NoRow
    /\ \A t \in TaskIds : tasks[t] # NoRow =>
          (tasks[t].status = "pending" /\ jobs[tasks[t].job].created_by # "s1")

(* C8: creating a Task under a Job is permitted only to an admin, the       *)
(* technician assigned to that Job or the sales agent who created it.       *)
C8_TaskCreateNeedsJobAccess ==
    [][\A u \in Users, data \in TaskCreateData :
         (resp'.op = "create_task"
            /\ is_authenticated(u) /\ data.job # <<>> /\ JobExists(data.job[1])
            /\ ~ Authorized(u, jobs[data.job[1]])
            /\ JobTaskViewSet_create(u, data))
         => (resp'.code \in {403, 404} /\ tasks' = tasks)]_vars

(* C9: at collection level job creation is granted exactly to authenticated *)
(* admins and sales agents, equipment and user writes exactly to            *)
(* authenticated admins, and reads exactly to authenticated actors.         *)
C9_CollectionPermission ==
    (perm.view # "none" /\ perm.action # "object") =>
        LET authed == perm.user # Anon
            role == IF authed THEN users[perm.user].role ELSE "none"
        IN /\ perm.method \in SAFE_METHODS => (perm.granted <=> authed)
           /\ (perm.view = "jobs" /\ perm.action = "create")
                 => (perm.granted <=> (authed /\ role \in {"admin", "sales_agent"}))
           /\ (perm.view \in {"equipment", "users"} /\ perm.method \notin SAFE_METHODS)
                 => (perm.granted <=> (authed /\ role = "admin"))

C9_Witness ==
    /\ perm.view = "jobs"
    /\ perm.action = "create"
    /\ perm.user # Anon
    /\ users[perm.user].role = "technician"
    /\ ~ perm.granted

(* C10: create_job by an authorized creator stores a Job with created_by =  *)
(* creator, status 'pending' and overdue false whatever the request         *)
(* supplies for them, and adds exactly one 'created' ChangeLog entry.       *)
C10_CreateJobDefaults ==
    [][resp'.op = "create_job" =>
         \A u \in Users, data \in JobCreateData :
           (is_authenticated(u) /\ users[u].role \in {"admin", "sales_agent"}
              /\ JobViewSet_create(u, data))
           => /\ resp'.code = 201
              /\ nextJob' = nextJob + 1
              /\ jobs[nextJob] = NoRow
              /\ jobs'[nextJob] # NoRow
              /\ jobs'[nextJob].created_by = u
              /\ jobs'[nextJob].status = "pending"
              /\ jobs'[nextJob].overdue = FALSE
              /\ \A j \in JobIds \ {nextJob} : jobs'[j] = jobs[j]
              /\ Len(logs') = Len(logs) + 1
              /\ SubSeq(logs', 1, Len(logs)) = logs
              /\ logs'[Len(logs')].action = "created"
              /\ logs'[Len(logs')].job = nextJob]_vars

C10_Witness ==
    /\ resp.op = "create_job"
    /\ resp.code = 201
    /\ \E j \in JobIds :
          /\ jobs[j] # NoRow
          /\ nextJob = j + 1
          /\ jobs[j].created_by = "s1"
          /\ jobs[j].status = "pending"
          /\ ~ jobs[j].overdue
          /\ Len(LogsOf(j)) = 1
          /\ logs[Len(logs)].job = j
          /\ logs[Len(logs)].action = "created"

(* C11: a successful update_job adds one 'updated' ChangeLog entry exactly   *)
(* when status or assigned_to changed; the entry holds {old, new} for       *)
(* exactly the changed tracked fields, old being the value stored before    *)
(* and new the value stored after; a patch of other fields adds no entry.   *)
C11_Logged(j) ==
    LET changed == {f \in {"status", "assigned_to"} : jobs'[j][f] # jobs[j][f]}
        e == logs'[Len(logs')]
    IN IF changed = {}
       THEN logs' = logs
       ELSE /\ Len(logs') = Len(logs) + 1
            /\ SubSeq(logs', 1, Len(logs)) = logs
            /\ e.action = "updated"
            /\ e.job = j
            /\ DOMAIN e.changes = changed
            /\ \A f \in changed : e.changes[f] = [old |-> jobs[j][f], new |-> jobs'[j][f]]

C11_UpdateJobLogsTrackedChanges ==
    [][\/ resp'.op # "update_job"
       \/ resp'.code # 200
       \/ \A u \in Users, j \in JobIds, data \in AuditJobUpdateData :
             (is_authenticated(u) /\ JobViewSet_update(u, j, data)) => C11_Logged(j)]_vars

C11_Witness ==
    /\ resp.op = "update_job"
    /\ resp.code = 200
    /\ Len(logs) = 2
    /\ logs[2].action = "updated"
    /\ DOMAIN logs[2].changes = {"status", "assigned_to"}
    /\ logs[2].changes.status = [old |-> "pending", new |-> "in_progress"]
    /\ jobs[logs[2].job].title = "B"

(* C12: for every Job state and every authorized actor, complete_job and    *)
(* update_job with {status: completed} both succeed or both fail, leave the *)
(* same Job and Task state and add the same number of ChangeLog entries.    *)
CompletePatch ==
    [title |-> <<>>, assigned_to_id |-> <<>>, status |-> <<"completed">>,
     scheduled_date |-> <<>>]

C12_Outcome(j, ok, added, status) ==
    /\ (resp'.code = 200) = ok
    /\ Len(logs') = Len(logs) + added
    /\ jobs' = [jobs EXCEPT ![j].status = status]
    /\ tasks' = tasks

C12_CompleteEquivalentToUpdate ==
    \A u \in Users, j \in JobIds :
        (is_authenticated(u) /\ jobs[j] # NoRow /\ Authorized(u, jobs[j])) =>
            \A ok \in BOOLEAN, added \in 0..1, status \in JOB_STATUS_CHOICES :
                (ENABLED (JobViewSet_complete(u, j) /\ C12_Outcome(j, ok, added, status)))
                <=> (ENABLED (JobViewSet_update(u, j, CompletePatch)
                               /\ C12_Outcome(j, ok, added, status)))

(* C13: a successful update_task adds one 'task_updated' ChangeLog entry to *)
(* the task's owning Job exactly when the task's status changed; the entry  *)
(* records the task's id, its title, the status before and the status       *)
(* after; a patch of other task fields adds no entry.                       *)
C13_Logged(t) ==
    LET e == logs'[Len(logs')]
    IN IF tasks'[t].status = tasks[t].status
       THEN logs' = logs
       ELSE /\ Len(logs') = Len(logs) + 1
            /\ SubSeq(logs', 1, Len(logs)) = logs
            /\ e.action = "task_updated"
            /\ e.job = tasks'[t].job
            /\ e.changes = [task_id |-> t, task_title |-> tasks'[t].title,
                            old_status |-> tasks[t].status,
                            new_status |-> tasks'[t].status]

C13_UpdateTaskLogsStatusChange ==
    [][(resp'.op = "update_task" /\ resp'.code = 200) =>
         LET changed == {t \in TaskIds : tasks[t] # NoRow /\ tasks'[t].status # tasks[t].status}
         IN IF changed = {} THEN logs' = logs
            ELSE \E t \in changed : changed = {t} /\ C13_Logged(t)]_vars

C13_Witness ==
    /\ resp.op = "update_task"
    /\ resp.code = 200
    /\ Len(logs) = 2
    /\ logs[2].action = "task_updated"
    /\ logs[2].changes.old_status = "pending"
    /\ logs[2].changes.new_status = "in_progress"
    /\ tasks[logs[2].changes.task_id].title = "U"
    /\ logs[2].changes.task_title = "T"
    /\ tasks[logs[2].changes.task_id].order = 1

(* C14: an update_task that sets a Task's status to the value it already    *)
(* has adds no ChangeLog entry and leaves completed_at as it was; a         *)
(* completed task keeps its original completed_at.                          *)
C14_SameStatusIsIdempotent ==
    [][(/\ resp'.op = "update_task"
        /\ resp'.code = 200
        /\ \A t \in TaskIds : tasks[t] # NoRow => tasks'[t].status = tasks[t].status)
       => (logs' = logs /\ tasks' = tasks)]_vars

C14_Witness ==
    /\ resp.op = "update_task"
    /\ resp.code = 200
    /\ now = 2
    /\ Len(logs) = 2
    /\ logs[2].action = "task_updated"
    /\ logs[2].timestamp = 1
    /\ \E t \in TaskIds :
          /\ tasks[t] # NoRow
          /\ tasks[t].status = "completed"
          /\ tasks[t].completed_at = 1

(* C15: the overdue sweep sets overdue on exactly the Jobs scheduled before *)
(* today whose status is pending or in_progress and that are not flagged    *)
(* yet, returns how many it updated, changes no other field and no other    *)
(* Job, and writes no ChangeLog entry.                                      *)
C15_Due == {j \in JobIds : /\ jobs[j] # NoRow
                           /\ jobs[j].scheduled_date < now
                           /\ jobs[j].status \in OpenStatuses
                           /\ ~ jobs[j].overdue}

C15_SweepFlagsExactlyDueJobs ==
    [][resp'.op = "check_overdue_jobs" =>
         /\ \A j \in JobIds :
               jobs'[j] = IF j \in C15_Due THEN [jobs[j] EXCEPT !.overdue = TRUE] ELSE jobs[j]
         /\ resp'.body.count = Cardinality(C15_Due)
         /\ logs' = logs
         /\ UNCHANGED <<users, tasks, nextJob, nextTask>>]_vars

C15_Witness ==
    /\ resp.op = "check_overdue_jobs"
    /\ resp.body.count = 1
    /\ \E j, k \in JobIds :
          /\ jobs[j] # NoRow /\ jobs[k] # NoRow
          /\ jobs[j].overdue /\ jobs[j].status = "pending" /\ jobs[j].scheduled_date < now
          /\ ~ jobs[k].overdue /\ jobs[k].status = "completed" /\ jobs[k].scheduled_date < now

(* C16: an overdue sweep that directly follows another one, with nothing in *)
(* between, changes no Job and reports zero updated jobs.                   *)
C16_SecondSweepDoesNothing ==
    resp.op = "check_overdue_jobs" =>
        ~ ENABLED (check_overdue_jobs /\ (jobs' # jobs \/ resp'.body.count # 0))

C16_Witness ==
    /\ resp.op = "check_overdue_jobs"
    /\ resp.body.count = 0
    /\ now = 1
    /\ Len(logs) = 1
    /\ \E j \in JobIds : jobs[j] # NoRow /\ jobs[j].overdue /\ jobs[j].status = "pending"

(* C17: a job listing returns to a technician exactly the Jobs assigned to  *)
(* them, to a sales agent exactly the Jobs they created and to an admin all *)
(* Jobs, after any sequence of job creations and reassignments.             *)
C17_Visible(u) ==
    {j \in JobIds : /\ jobs[j] # NoRow
                    /\ \/ users[u].role = "admin"
                       \/ users[u].role = "technician" /\ jobs[j].assigned_to = u
                       \/ users[u].role = "sales_agent" /\ jobs[j].created_by = u}

C17_JobListingScopedByRole ==
    \A u \in Users : is_authenticated(u) =>
        ~ ENABLED (/\ JobViewSet_list(u)
                   /\ ~ (/\ resp'.code = 200
                         /\ {resp'.body[i] : i \in 1..Len(resp'.body)} = C17_Visible(u)))

C17_Witness ==
    /\ resp.op = "list_jobs"
    /\ resp.code = 200
    /\ Len(resp.body) = 1
    /\ jobs[resp.body[1]].assigned_to = "t2"
    /\ jobs[resp.body[1]].created_by = "s1"
    /\ \E j \in JobIds : /\ jobs[j] # NoRow
                          /\ jobs[j].assigned_to = "t1"
                          /\ jobs[j].created_by = "s1"

(* C18: for an actor and a Job or Task outside the actor's scope, a read or *)
(* write request on that object gets the response the same request gets on  *)
(* an id that does not exist.                                               *)
C18_Codes == {200, 204, 400, 403, 404, 500}
C18_Missing == NoJob

C18_JobRequestsAlike(u, j) ==
    \A code \in C18_Codes :
        /\ (ENABLED (JobViewSet_retrieve(u, j) /\ resp'.code = code))
              <=> (ENABLED (JobViewSet_retrieve(u, C18_Missing) /\ resp'.code = code))
        /\ (ENABLED (JobViewSet_complete(u, j) /\ resp'.code = code))
              <=> (ENABLED (JobViewSet_complete(u, C18_Missing) /\ resp'.code = code))
        /\ (ENABLED (JobViewSet_destroy(u, j) /\ resp'.code = code))
              <=> (ENABLED (JobViewSet_destroy(u, C18_Missing) /\ resp'.code = code))
        /\ \A data \in JobUpdateData :
              (ENABLED (JobViewSet_update(u, j, data) /\ resp'.code = code))
              <=> (ENABLED (JobViewSet_update(u, C18_Missing, data) /\ resp'.code = code))

C18_TaskRequestsAlike(u, t) ==
    \A code \in C18_Codes :
        /\ (ENABLED (JobTaskViewSet_retrieve(u, t) /\ resp'.code = code))
              <=> (ENABLED (JobTaskViewSet_retrieve(u, C18_Missing) /\ resp'.code = code))
        /\ (ENABLED (JobTaskViewSet_destroy(u, t) /\ resp'.code = code))
              <=> (ENABLED (JobTaskViewSet_destroy(u, C18_Missing) /\ resp'.code = code))
        /\ \A data \in TaskUpdateData :
              (ENABLED (JobTaskViewSet_update(u, t, data) /\ resp'.code = code))
              <=> (ENABLED (JobTaskViewSet_update(u, C18_Missing, data) /\ resp'.code = code))

C18_OutOfScopeLooksMissing ==
    \A u \in Users : is_authenticated(u) =>
        /\ \A j \in JobIds :
              (jobs[j] # NoRow /\ ~ Authorized(u, jobs[j])) => C18_JobRequestsAlike(u, j)
        /\ \A t \in TaskIds :
              (tasks[t] # NoRow /\ ~ Authorized(u, jobs[tasks[t].job]))
                 => C18_TaskRequestsAlike(u, t)

(* C19: a listing of Tasks, from the job's task collection or from the task *)
(* list endpoint, is in non-decreasing order value, and Tasks of equal      *)
(* order appear in creation sequence.                                       *)
C19_Sorted(seq) ==
    \A a, b \in 1..Len(seq) : a < b =>
        \/ tasks[seq[a]].order < tasks[seq[b]].order
        \/ /\ tasks[seq[a]].order = tasks[seq[b]].order
           /\ tasks[seq[a]].created_at < tasks[seq[b]].created_at

C19_TaskListingsOrdered ==
    /\ (resp.op = "list_tasks" /\ resp.code = 200) => C19_Sorted(resp.body)
    /\ (resp.op = "retrieve_job" /\ resp.code = 200) => C19_Sorted(resp.body.tasks)

(* C20: create_task stores a Task with status 'pending' and completed_at    *)
(* null whatever the request supplies for them; a create_task or            *)
(* update_task with a negative order is rejected with a validation error    *)
(* and no Task row is created or changed.                                   *)
C20_Rejected(u, found) ==
    /\ resp'.code \in {400, 403, 404}
    /\ (users[u].role = "admin" /\ found) => resp'.code = 400
    /\ tasks' = tasks
    /\ nextTask' = nextTask
    /\ logs' = logs

C20_Defaults ==
    /\ nextTask' = nextTask + 1
    /\ tasks[nextTask] = NoRow
    /\ tasks'[nextTask].status = "pending"
    /\ tasks'[nextTask].completed_at = NoTime

C20_CreateDefaultsAndOrderValidation ==
    \A u \in Users : is_authenticated(u) =>
        /\ \A data \in AuditTaskCreateData :
              /\ ~ ENABLED (JobTaskViewSet_create(u, data) /\ resp'.code = 201 /\ ~ C20_Defaults)
              /\ Get(data.order, 0) < 0 =>
                    ~ ENABLED (JobTaskViewSet_create(u, data) /\ ~ C20_Rejected(u, TRUE))
        /\ \A t \in TaskIds, data \in AuditTaskUpdateData :
              Get(data.order, 0) < 0 =>
                 ~ ENABLED (JobTaskViewSet_update(u, t, data)
                            /\ ~ C20_Rejected(u, tasks[t] # NoRow))

C20_Witness ==
    /\ resp.op = "create_task"
    /\ resp.code = 400
    /\ \E j \in JobIds : jobs[j] # NoRow
    /\ \A t \in TaskIds : tasks[t] = NoRow

(* C21: a ChangeLog entry's job, action, changes and timestamp never       *)
(* change and no lifecycle operation removes it; an entry disappears only   *)
(* through the retention sweep, which deletes exactly the entries more than *)
(* 90 days old, or through the deletion of its owning Job.                  *)
C21_Kept(e) ==
    [job |-> e.job, action |-> e.action, changes |-> e.changes, timestamp |-> e.timestamp]

C21_Fields(seq) == [i \in 1..Len(seq) |-> C21_Kept(seq[i])]

C21_IsPrefix(a, b) == Len(a) <= Len(b) /\ SubSeq(b, 1, Len(a)) = a

C21_ChangeLogAppendOnly ==
    [][/\ resp'.op = "cleanup_old_logs" =>
             logs' = SelectSeq(logs, LAMBDA e : ~ (now - e.timestamp > RETENTION_DAYS))
       /\ resp'.op # "cleanup_old_logs" =>
             \/ C21_IsPrefix(C21_Fields(logs), C21_Fields(logs'))
             \/ \E j \in JobIds : /\ jobs[j] # NoRow
                                  /\ jobs'[j] = NoRow
                                  /\ logs' = SelectSeq(logs, LAMBDA e : e.job # j)]_vars

(* C22: deactivating an Equipment leaves every existing Task-Equipment      *)
(* association in place, and no create_task or update_task adds an          *)
(* association to an Equipment that is inactive at the time of the write:   *)
(* a write that names one is rejected and stores nothing.                   *)
C22_Associations(rows, t) == IF rows[t] = NoRow THEN {} ELSE rows[t].required_equipment

C22_Inactive == {e \in EquipmentIds : equipment[e] # NoRow /\ ~ equipment[e].is_active}

C22_AddsInactive ==
    \E t \in TaskIds :
        (C22_Associations(tasks', t) \ C22_Associations(tasks, t)) \cap C22_Inactive # {}

C22_NamesInactive(data) ==
    /\ data.required_equipment_ids # <<>>
    /\ data.required_equipment_ids[1] \cap C22_Inactive # {}

C22_Rejected == resp'.code \in 400..499 /\ tasks' = tasks /\ logs' = logs

C22_InactiveEquipmentGetsNoNewTask ==
    /\ \A u \in Users, e \in EquipmentIds, data \in EquipmentData :
          is_authenticated(u) =>
             ~ ENABLED (EquipmentViewSet_update(u, e, data) /\ tasks' # tasks)
    /\ \A u \in Users : is_authenticated(u) =>
          /\ \A data \in EquipTaskCreateData :
                /\ ~ ENABLED (JobTaskViewSet_create(u, data) /\ C22_AddsInactive)
                /\ C22_NamesInactive(data) =>
                      ~ ENABLED (JobTaskViewSet_create(u, data) /\ ~ C22_Rejected)
          /\ \A t \in TaskIds, data \in EquipTaskUpdateData :
                /\ ~ ENABLED (JobTaskViewSet_update(u, t, data) /\ C22_AddsInactive)
                /\ C22_NamesInactive(data) =>
                      ~ ENABLED (JobTaskViewSet_update(u, t, data) /\ ~ C22_Rejected)

C22_Witness ==
    /\ resp.op = "update_task"
    /\ resp.code = 400
    /\ \E t \in TaskIds : C22_Associations(tasks, t) \cap C22_Inactive # {}

(* C23: in every reachable state each Job's assigned_to is null or a User   *)
(* whose role is 'technician', whatever jobs were created or reassigned and *)
(* whatever users were updated.                                             *)
C23_AssigneeIsTechnician ==
    \A j \in JobIds :
        (jobs[j] # NoRow /\ jobs[j].assigned_to # NoUser) =>
            /\ users[jobs[j].assigned_to] # NoRow
            /\ users[jobs[j].assigned_to].role = "technician"

(* C24: a Task's owning job is fixed at creation: no update_task, by any    *)
(* actor, changes the job a Task belongs to.                                *)
C24_TaskKeepsItsJob ==
    [][\A t \in TaskIds :
          (tasks[t] # NoRow /\ tasks'[t] # NoRow) => tasks'[t].job = tasks[t].job]_vars

(* C25: a lifecycle mutation is atomic with its audit write: when writing   *)
(* the ChangeLog entry fails during create_job, update_job, complete_job or *)
(* update_task, the operation fails and the Job or Task is as it was before *)
(* the operation, so no tracked change (job status, job assigned_to, task   *)
(* status) is persisted without its ChangeLog entry.                        *)
C25_AuditFailed(r) == r # Idle /\ r.pc = "done" /\ r.at = "log" /\ r.code >= 500

C25_Accounted(j) ==
    \E i \in 1..Len(logs) :
        /\ logs[i].job = j
        /\ \/ logs[i].action = "completed"
           \/ /\ logs[i].action = "updated"
              /\ "status" \in DOMAIN logs[i].changes
              /\ logs[i].changes.status.new = "completed"

C25_MutationAtomicWithAudit ==
    \A w \in Workers :
        LET r == inflight[w] IN
        (C25_AuditFailed(r) /\ resp = Response(r.op, r.code)) =>
            CASE r.op = "create_job" -> jobs[r.pk] = NoRow
              [] r.op = "update_job" -> /\ jobs[r.pk].status = r.old.status
                                        /\ jobs[r.pk].assigned_to = r.old.assigned_to
              [] r.op = "complete_job" -> jobs[r.pk].status = "completed" => C25_Accounted(r.pk)
              [] r.op = "update_task" -> tasks[r.pk].status = r.old.status

(* C26: under any interleaving of a complete_job (or an update_job with     *)
(* status = completed) with a concurrent create_task or update_task on the  *)
(* same Job, no interleaving ends in a state where the Job is 'completed'   *)
(* while one of its Tasks is 'pending' or 'in_progress'.                    *)
C26_JobRequest(r) ==
    r # Idle /\ r.pc = "done" /\ r.op \in {"complete_job", "update_job"}

C26_TaskRequest(r, j) ==
    /\ r # Idle /\ r.pc = "done" /\ r.op \in {"create_task", "update_task"}
    /\ r.instance # NoRow /\ r.instance.job = j

C26_CompletionAtomicWithTaskWrites ==
    \A w, v \in Workers :
        (C26_JobRequest(inflight[w]) /\ C26_TaskRequest(inflight[v], inflight[w].pk)) =>
            ~ (jobs[inflight[w].pk].status = "completed" /\ HasOpenTask(inflight[w].pk))

(* C27: two concurrent Job-level writes to the same Job are serializable:   *)
(* the final Job fields and the ChangeLog entries are those of the two      *)
(* writes run in some serial order, so neither write's change is lost.      *)
(* For two patches of different fields every serial order ends with both    *)
(* patched values stored and logs, per write, only the fields it patched.   *)
C27_Updated(r) == r # Idle /\ r.pc = "done" /\ r.op = "update_job" /\ r.code = 200

C27_Key(f) == IF f = "assigned_to" THEN "assigned_to_id" ELSE f

C27_Disjoint(a, b) ==
    \A f \in {"status", "assigned_to_id"} : a.data[f] = <<>> \/ b.data[f] = <<>>

C27_UpdatedEntries(j) ==
    {i \in 1..Len(logs) : logs[i].job = j /\ logs[i].action = "updated"}

C27_ConcurrentJobWritesSerializable ==
    \A w, v \in Workers :
        LET a == inflight[w]
            b == inflight[v]
        IN (w # v /\ C27_Updated(a) /\ C27_Updated(b) /\ a.pk = b.pk /\ C27_Disjoint(a, b)) =>
              /\ a.data.status # <<>> => jobs[a.pk].status = a.data.status[1]
              /\ a.data.assigned_to_id # <<>> =>
                    jobs[a.pk].assigned_to = a.data.assigned_to_id[1]
              /\ \A i \in C27_UpdatedEntries(a.pk) :
                    \E r \in {a, b} :
                        \A f \in DOMAIN logs[i].changes : r.data[C27_Key(f)] # <<>>

(* C28: two concurrent update_task requests on different tasks of the same *)
(* job both take effect under every interleaving: once both have answered  *)
(* 200, each task holds the status its own request wrote, and the job's    *)
(* change log holds exactly one 'task_updated' entry for each task whose   *)
(* status changed and none for a task whose status stayed the same.        *)
C28_Updated(r) == r # Idle /\ r.pc = "done" /\ r.op = "update_task" /\ r.code = 200

C28_Pair ==
    /\ \A w \in Workers : C28_Updated(inflight[w])
    /\ inflight[1].pk # inflight[2].pk
    /\ inflight[1].instance.job = inflight[2].instance.job

C28_Entries(j, t) ==
    SelectSeq(logs, LAMBDA e : e.job = j /\ e.action = "task_updated"
                               /\ e.changes.task_id = t)

C28_TookEffect(r) ==
    /\ tasks[r.pk] # NoRow
    /\ tasks[r.pk].status = r.data.status[1]
    /\ LET entries == C28_Entries(r.instance.job, r.pk) IN
       IF r.old.status = r.data.status[1]
       THEN entries = <<>>
       ELSE /\ Len(entries) = 1
            /\ entries[1].changes.old_status = r.old.status
            /\ entries[1].changes.new_status = r.data.status[1]
            /\ entries[1].user = r.user

C28_BothTaskUpdatesTakeEffect ==
    C28_Pair => \A w \in Workers : C28_TookEffect(inflight[w])

C28_Witness ==
    /\ C28_Pair
    /\ \A w \in Workers : inflight[w].old.status # inflight[w].data.status[1]
    /\ inflight[1].data.status # inflight[2].data.status
    /\ inflight[1].user # inflight[2].user

(* C29: with one operation at a time the overdue flag is stable once set:  *)
(* no create_job, update_job, complete_job, create_task, update_task or    *)
(* sweep takes a job that exists before and after the step from            *)
(* overdue = TRUE to overdue = FALSE, whether the step completes or        *)
(* cancels the job, moves its scheduled date to the future, or sends an    *)
(* 'overdue' key of its own.                                               *)
C29_OverdueStaysSet ==
    [][\A j \in JobIds :
          (jobs[j] # NoRow /\ jobs[j].overdue /\ jobs'[j] # NoRow) => jobs'[j].overdue]_vars

C29_Witness ==
    \E j \in JobIds :
        /\ jobs[j] # NoRow
        /\ jobs[j].overdue
        /\ jobs[j].status \in {"completed", "cancelled"}
        /\ jobs[j].scheduled_date > now
        /\ resp.op \in {"update_job", "complete_job"}
        /\ resp.code = 200

(* C30: the overdue flag set by the sweep is not lost to a concurrent job  *)
(* write: when an update_job or complete_job read its job before the sweep *)
(* flagged it, the save of that request leaves the job's overdue flag set. *)
C30_ReadBeforeSweep(w) ==
    /\ inflight[w] # Idle
    /\ inflight[w].op \in {"update_job", "complete_job"}
    /\ inflight[w].pc = "save"
    /\ ~ inflight[w].instance.overdue
    /\ jobs[inflight[w].pk] # NoRow
    /\ jobs[inflight[w].pk].overdue

C30_SweptFlagSurvivesSave ==
    [][\A w \in Workers :
          (C30_ReadBeforeSweep(w) /\ inflight'[w].pc = "log")
              => jobs'[inflight[w].pk].overdue]_vars

====
